---- MODULE Spec2Model ----
(***************************************************************************)
(* Model of the FAQ service's hybrid retrieval core:                       *)
(*   app/kb_parser.py        KnowledgeBaseParser                           *)
(*   app/chromadb_service.py ChromaDBService                               *)
(*   app/tfidf_service.py    TFIDFService                                  *)
(*   app/rag_service.py      HybridRAGService                              *)
(*                                                                         *)
(* Text is modelled as a sequence of tokens:                               *)
(*   "Q"  the two characters "Q:"      "A"  the two characters "A:"        *)
(*   "x"  one non-whitespace character "_"  one whitespace character       *)
(* Floating-point scores are fixed-point integers, One units per 1.0.      *)
(***************************************************************************)
EXTENDS Integers, Sequences, FiniteSets, TLC

VARIABLES
    content,          \* the knowledge base file's text (token sequence)
    qa_pairs,         \* KnowledgeBaseParser.qa_pairs
    parse_status,     \* "new", "ok" (parse returned), "error" (parse raised)
    svc,              \* HybridRAGService: "new", "ready", "failed" (__init__ raised)
    semantic_weight,  \* HybridRAGService.semantic_weight
    keyword_weight,   \* HybridRAGService.keyword_weight
    store,            \* the persistent collection "faq_embeddings" in ./chroma_db
    handle,           \* ChromaDBService.collection: uid of the collection it holds
    tfidf,            \* TFIDFService: is_fitted and the ids of its documents
    request,          \* the call being answered (its inputs)
    response,         \* what the call left: returned value or raised exception
    procs,            \* the processes that share ./chroma_db during a rebuild
    app               \* the web application: the global of routes.py, the history rows

vars == <<content, qa_pairs, parse_status, svc, semantic_weight, keyword_weight,
          store, handle, tfidf, request, response, procs, app>>

\* ------------------------------------------------------------------ bounds

\* longest knowledge base text, in tokens, of the parser specification
MaxLen == 8

\* most question/answer pairs in a knowledge base of the service specification
MaxPairs == 2

\* largest n_results a caller of search passes
MaxN == 2

\* processes that rebuild the index (HybridRAGService(...)) while it is served
NumRebuilders == 1

\* processes that open the collection and query it (ChromaDBService())
NumReaders == 1

\* most segments of a text handed to preprocess_text
MaxSegments == 3

\* most documents of a corpus handed to fit
MaxDocs == 3

\* longest result list handed to the merge specification
MaxListLen == 2

\* largest distance of the vector search specification, in steps of 0.25
MaxDistanceSteps == 12

\* ------------------------------------------------------------------ helpers

Min(S) == CHOOSE m \in S : \A k \in S : m <= k

Tokens == {"Q", "A", "x", "_"}

\* all token sequences of length at most n
TextsUpTo(n) == UNION {[1..k -> Tokens] : k \in 0..n}

\* ------------------------------------------------- app/kb_parser.py

\* str.split() followed by ' '.join: every run of whitespace becomes one
\* space and leading/trailing whitespace disappears
RECURSIVE JoinSplit(_, _)
JoinSplit(text, pending) ==
    IF text = <<>> THEN <<>>
    ELSE IF Head(text) = "_" THEN JoinSplit(Tail(text), TRUE)
    ELSE (IF pending THEN <<"_">> ELSE <<>>) \o <<Head(text)>>
         \o JoinSplit(Tail(text), FALSE)

\* text.strip() on an already joined text
RECURSIVE StripLeft(_)
StripLeft(text) ==
    IF text # <<>> /\ Head(text) = "_" THEN StripLeft(Tail(text)) ELSE text

\* mutant of clean_text: the text is kept as it was matched
clean_text_unchanged(text) == text

\* KnowledgeBaseParser._clean_text: ' '.join(text.split()), strip, then
\* re.sub(r'\s+', ' ') which finds no run left to replace
clean_text(text) ==
    LET joined == JoinSplit(StripLeft(text), FALSE)
    IN  StripLeft(joined)

\* re.findall(r'Q:\s*(.*?)\s*A:\s*(.*?)(?=Q:|$)', content, re.DOTALL) from
\* position pos: the leftmost "Q:" that has an "A:" after it starts a match,
\* the question runs lazily to the first "A:" after it, the answer lazily to
\* the next "Q:" or the end of the text, and the scan resumes there
RECURSIVE FindAll(_, _)
FindAll(text, pos) ==
    LET n  == Len(text)
        qs == {i \in pos..n : text[i] = "Q" /\ \E j \in (i+1)..n : text[j] = "A"}
    IN  IF qs = {} THEN <<>>
        ELSE LET q  == Min(qs)
                 a  == Min({j \in (q+1)..n : text[j] = "A"})
                 nq == {k \in (a+1)..n : text[k] = "Q"}
                 e  == IF nq = {} THEN n + 1 ELSE Min(nq)
             IN  <<[question |-> SubSeq(text, q+1, a-1),
                    answer   |-> SubSeq(text, a+1, e-1)]>>
                 \o FindAll(text, e)

\* mutant of MakePairs: the index is not advanced, every pair gets the same id
RECURSIVE MakePairsSameId(_, _)
MakePairsSameId(matches, i) ==
    IF matches = <<>> THEN <<>>
    ELSE LET question == clean_text(Head(matches).question)
             answer   == clean_text(Head(matches).answer)
             rest     == MakePairsSameId(Tail(matches), i)
         IN  IF question # <<>> /\ answer # <<>>
             THEN <<[id |-> i, question |-> question, answer |-> answer]>> \o rest
             ELSE rest

\* the loop of parse over enumerate(matches), from 0-based index i
RECURSIVE MakePairs(_, _)
MakePairs(matches, i) ==
    IF matches = <<>> THEN <<>>
    ELSE LET question == clean_text(Head(matches).question)
             answer   == clean_text(Head(matches).answer)
             rest     == MakePairs(Tail(matches), i + 1)
         IN  IF question # <<>> /\ answer # <<>>
             THEN <<[id |-> i, question |-> question, answer |-> answer]>> \o rest
             ELSE rest

\* mutant of parse: the check for an empty result is missing, the empty
\* list is returned
parse_returns_empty(text) ==
    [ok |-> TRUE, qa_pairs |-> MakePairs(FindAll(text, 1), 0)]

\* KnowledgeBaseParser.parse: the pairs it leaves in self.qa_pairs, and
\* whether it returns them (ok) or raises ValueError (no pair found)
parse(text) ==
    LET pairs == MakePairs(FindAll(text, 1), 0)
    IN  [ok |-> pairs # <<>>, qa_pairs |-> pairs]

\* QAPair.to_text / the block "Q: ...\nA: ..." are measured in characters:
\* a marker token is two characters, any other token one
RECURSIVE CharLen(_)
CharLen(text) ==
    IF text = <<>> THEN 0
    ELSE (IF Head(text) \in {"Q", "A"} THEN 2 ELSE 1) + CharLen(Tail(text))

\* KnowledgeBaseParser.get_by_id: the pairs with that id (empty: it raises)
HasId(pairs, qa_id) == \E k \in 1..Len(pairs) : pairs[k].id = qa_id

get_by_id(pairs, qa_id) ==
    pairs[Min({k \in 1..Len(pairs) : pairs[k].id = qa_id})]

\* ------------------------------------------------- fixed-point numbers

\* 1.0 in score units; weights, similarities and distances share the unit
One == 1000

\* the tolerance 0.01 of the weight check
Tolerance == 10

Max2(a, b) == IF a >= b THEN a ELSE b
Min2(a, b) == IF a <= b THEN a ELSE b
Abs(a) == IF a >= 0 THEN a ELSE 0 - a

\* ------------------------------------------------- app/chromadb_service.py

\* the persistent store holds at most one collection under the service's
\* name; created counts the collections ever created and gives each its uid
NoCollection == [exists |-> FALSE, uid |-> 0, cosine |-> FALSE, items |-> {},
                 created |-> 0]

\* client.create_collection(name, metadata={"hnsw:space": "cosine"})
create_collection(st) ==
    [exists |-> TRUE, uid |-> st.created + 1, cosine |-> TRUE, items |-> {},
     created |-> st.created + 1]

\* client.delete_collection(name): raises when there is no such collection
delete_collection(st) ==
    [ok |-> st.exists,
     store |-> IF st.exists THEN [st EXCEPT !.exists = FALSE, !.items = {}] ELSE st]

\* ChromaDBService._init_collection: get the existing cosine collection, or
\* (none, or one that is not cosine and is deleted first) create a new one
init_collection(st) ==
    IF st.exists /\ st.cosine
    THEN [store |-> st, handle |-> st.uid]
    ELSE LET fresh == create_collection(st)
         IN  [store |-> fresh, handle |-> fresh.uid]

\* collection.add(...) through a handle: raises when the collection the
\* handle names is gone; ids already present are left as they are
collection_add(st, h, ids) ==
    [ok |-> st.exists /\ st.uid = h,
     store |-> IF st.exists /\ st.uid = h
               THEN [st EXCEPT !.items = st.items \cup ids] ELSE st]

\* mutant of add_embeddings: force_reset is ignored, nothing is deleted
add_embeddings_noreset(st, h, ids) ==
    LET a == collection_add(st, h, ids)
    IN  [ok |-> a.ok, store |-> a.store, handle |-> h]

\* ChromaDBService.add_embeddings(embeddings, qa_pairs, force_reset=True)
add_embeddings(st, h, ids) ==
    LET d == delete_collection(st)
        i == init_collection(d.store)
        a == collection_add(i.store, i.handle, ids)
    IN  IF ~d.ok THEN [ok |-> FALSE, store |-> st, handle |-> h]
        ELSE [ok |-> a.ok, store |-> a.store, handle |-> i.handle]

\* ChromaDBService.clear_collection
clear_collection(st, h) ==
    LET d == delete_collection(st)
        i == init_collection(d.store)
    IN  IF ~d.ok THEN [ok |-> FALSE, store |-> st, handle |-> h]
        ELSE [ok |-> TRUE, store |-> i.store, handle |-> i.handle]

\* mutant of DistanceToSimilarity: the linear formula alone, with neither
\* the branch for distances above 2 nor the clamp
DistanceToSimilarityLinear(distance) == One - (distance \div 2)

\* the conversion inside ChromaDBService.search:
\* distance > 2 -> 1/(1+distance), else 1 - distance/2, then clamp to [0,1]
DistanceToSimilarity(distance) ==
    LET raw == IF distance > 2 * One
               THEN (One * One) \div (One + distance)
               ELSE One - (distance \div 2)
    IN  Max2(0, Min2(One, raw))

\* all orderings of a finite set
Perms(S) ==
    {p \in [1..Cardinality(S) -> S] : \A i, j \in 1..Cardinality(S) : p[i] = p[j] => i = j}

FirstN(seq, n) == SubSeq(seq, 1, Min2(n, Len(seq)))

\* mutant of QueryOrders: the stored ids in any order, nearest or not
QueryOrdersUnsorted(items, dist, n) == {FirstN(p, n) : p \in Perms(items)}

\* collection.query(n_results): the stored ids nearest first.  The order of
\* equal distances is the store's choice, so every such order is possible.
QueryOrders(items, dist, n) ==
    {FirstN(p, n) : p \in {q \in Perms(items) :
        \A i, j \in 1..Cardinality(items) : i < j => dist[q[i]] <= dist[q[j]]}}

\* ChromaDBService.search: one SearchResult per returned document
chroma_search(order, dist) ==
    [i \in 1..Len(order) |->
        [qa_id |-> order[i], similarity |-> DistanceToSimilarity(dist[order[i]])]]

\* ------------------------------------------------- app/tfidf_service.py

NotFitted == [is_fitted |-> FALSE, ids |-> <<>>]

\* TFIDFService.fit: keeps the qa_pairs dicts in document order
fit(pairs) == [is_fitted |-> TRUE, ids |-> [k \in 1..Len(pairs) |-> pairs[k].id]]

\* mutant of ArgsortDescending: the indices are not sorted at all
ArgsortAnyOrder(sims) == Perms(DOMAIN sims)

\* np.argsort(similarities)[::-1]: document indices by descending
\* similarity; the order of equal similarities is the sort's choice
ArgsortDescending(sims) ==
    {p \in Perms(DOMAIN sims) :
        \A i, j \in 1..Len(sims) : i < j => sims[p[i]] >= sims[p[j]]}

\* mutant of TfidfResults: every one of the top indices is returned
TfidfResultsUnfiltered(t, sims, top_indices) ==
    [k \in 1..Len(top_indices) |->
        [qa_id |-> t.ids[top_indices[k]], score |-> sims[top_indices[k]]]]

\* the result loop of TFIDFService.search over top_indices
RECURSIVE TfidfResults(_, _, _)
TfidfResults(t, sims, top_indices) ==
    IF top_indices = <<>> THEN <<>>
    ELSE LET idx  == Head(top_indices)
             rest == TfidfResults(t, sims, Tail(top_indices))
         IN  IF sims[idx] > 0
             THEN <<[qa_id |-> t.ids[idx], score |-> sims[idx]]>> \o rest
             ELSE rest

\* TFIDFService.search(query, n_results) given the cosine similarities of
\* the query to the documents and the order argsort produced
tfidf_search(t, sims, order, n) ==
    IF ~t.is_fitted THEN <<>>
    ELSE TfidfResults(t, sims, FirstN(order, n))

\* ----------------------------------- app/tfidf_service.py: preprocess_text

\* a text is a sequence of characters: the lowercase letters "a" and "n",
\* "B" an uppercase letter, "_" a whitespace character, "h" the four
\* letters "http", and the punctuation "@", ".", "/", ":"
Chars == {"a", "n", "B", "_", "h", "@", ".", "/", ":"}

\* the characters [a-z]
Letters == {"a", "n", "h"}

\* str.lower()
Lower(text) == [i \in 1..Len(text) |-> IF text[i] = "B" THEN "a" ELSE text[i]]

\* the number of letters of a run of letter characters
RECURSIVE LetterCount(_)
LetterCount(text) ==
    IF text = <<>> THEN 0
    ELSE (IF Head(text) = "h" THEN 4 ELSE 1) + LetterCount(Tail(text))

\* the end of the longest run of characters of class cls that starts at
\* position i (i - 1 when text[i] is not in cls)
RunEnd(text, i, cls) ==
    LET stops == {k \in i..Len(text) : text[k] \notin cls}
    IN  IF stops = {} THEN Len(text) ELSE Min(stops) - 1

\* [a-zA-Z0-9._%+-]+@[a-zA-Z0-9.-]+\.[a-zA-Z]{2,} matched at position i:
\* the position of the last character of the match, 0 when there is none.
\* The local part runs to the "@"; the domain is greedy, so the "." before
\* the top-level name is the last one that at least two letters follow.
EmailEnd(text, i) ==
    LET at   == RunEnd(text, i, (Letters \cup {"."})) + 1
        dend == RunEnd(text, at + 1, (Letters \cup {"."}))
        dots == {k \in (at + 2)..dend :
                   /\ text[k] = "."
                   /\ LetterCount(SubSeq(text, k + 1,
                                         RunEnd(text, k + 1, Letters))) >= 2}
    IN  IF at = i \/ at > Len(text) \/ text[at] # "@" \/ dots = {} THEN 0
        ELSE LET k == CHOOSE d \in dots : \A o \in dots : o <= d
             IN  RunEnd(text, k + 1, Letters)

\* https?://[^\s]+ matched at position i: the position of the last
\* character of the match, 0 when there is none
UrlEnd(text, i) ==
    IF /\ i + 4 <= Len(text)
       /\ SubSeq(text, i, i + 3) = <<"h", ":", "/", "/">>
       /\ text[i + 4] # "_"
    THEN RunEnd(text, i + 4, Chars \ {"_"})
    ELSE 0

\* m.group(0).replace('.', 'DOT').replace('@', 'AT')
RECURSIVE ReplaceEmail(_)
ReplaceEmail(text) ==
    IF text = <<>> THEN <<>>
    ELSE (CASE Head(text) = "." -> <<"B", "B", "B">>
            [] Head(text) = "@" -> <<"B", "B">>
            [] OTHER -> <<Head(text)>>) \o ReplaceEmail(Tail(text))

\* m.group(0).replace('/', 'SLASH').replace('.', 'DOT')
RECURSIVE ReplaceUrl(_)
ReplaceUrl(text) ==
    IF text = <<>> THEN <<>>
    ELSE (CASE Head(text) = "/" -> <<"B", "B", "B", "B", "B">>
            [] Head(text) = "." -> <<"B", "B", "B">>
            [] OTHER -> <<Head(text)>>) \o ReplaceUrl(Tail(text))

\* re.sub of the e-mail pattern from position pos on (lines 73-75)
RECURSIVE SubEmails(_, _)
SubEmails(text, pos) ==
    LET starts == {i \in pos..Len(text) : EmailEnd(text, i) # 0}
    IN  IF starts = {} THEN SubSeq(text, pos, Len(text))
        ELSE LET i == Min(starts)
                 e == EmailEnd(text, i)
             IN  SubSeq(text, pos, i - 1) \o ReplaceEmail(SubSeq(text, i, e))
                 \o SubEmails(text, e + 1)

\* re.sub of the URL pattern from position pos on (lines 78-80)
RECURSIVE SubUrls(_, _)
SubUrls(text, pos) ==
    LET starts == {i \in pos..Len(text) : UrlEnd(text, i) # 0}
    IN  IF starts = {} THEN SubSeq(text, pos, Len(text))
        ELSE LET i == Min(starts)
                 e == UrlEnd(text, i)
             IN  SubSeq(text, pos, i - 1) \o ReplaceUrl(SubSeq(text, i, e))
                 \o SubUrls(text, e + 1)

\* re.sub(r'[^a-z0-9\s\-]', ' ', text)
RemoveSpecial(text) ==
    [i \in 1..Len(text) |-> IF text[i] \in Letters \cup {"_"} THEN text[i] ELSE "_"]

\* TFIDFService.preprocess_text
preprocess_text(text) ==
    LET lowered == Lower(text)
        emails  == SubEmails(lowered, 1)
        urls    == SubUrls(emails, 1)
        kept    == RemoveSpecial(urls)
    IN  JoinSplit(StripLeft(kept), FALSE)

\* ----------------------------------------- app/tfidf_service.py: fit

\* the words of a preprocessed text: its runs of non-whitespace characters
RECURSIVE SplitWords(_, _)
SplitWords(text, word) ==
    IF text = <<>> THEN (IF word = <<>> THEN <<>> ELSE <<word>>)
    ELSE IF Head(text) = "_"
    THEN (IF word = <<>> THEN <<>> ELSE <<word>>) \o SplitWords(Tail(text), <<>>)
    ELSE SplitWords(Tail(text), Append(word, Head(text)))

LongWord(word) == LetterCount(word) >= 2

\* the vectorizer's default token_pattern (?u)\b\w\w+\b: words of two or
\* more characters
Tokenize(text) == SelectSeq(SplitWords(text, <<>>), LongWord)

\* the word "an", the one entry of stop_words='english' the alphabet spells
StopWords == {<<"a", "n">>}

NotStopWord(word) == word \notin StopWords

\* the n-grams of a token sequence for ngram_range=(1, maxn)
NGrams(tokens, maxn) ==
    {SubSeq(tokens, i, i + k - 1) :
        <<i, k>> \in {p \in (1..Len(tokens)) \X (1..maxn) : p[1] + p[2] - 1 <= Len(tokens)}}

\* in how many documents a term occurs
DocFreq(term, doc_terms) ==
    Cardinality({k \in 1..Len(doc_terms) : term \in doc_terms[k]})

\* self.vectorizer.fit_transform (line 107) for the vectorizer of __init__:
\* ngram_range=(1, 3), stop_words='english', max_df=0.8, min_df=2.  It
\* raises ValueError for an empty vocabulary, for max_df * n_docs < min_df,
\* and when no term is left after pruning.
primary_fit_transform(documents) ==
    LET n_doc     == Len(documents)
        doc_terms == [k \in 1..n_doc |->
                        NGrams(SelectSeq(Tokenize(documents[k]), NotStopWord), 3)]
        all       == UNION {doc_terms[k] : k \in 1..n_doc}
        kept      == {t \in all : /\ DocFreq(t, doc_terms) >= 2
                                  /\ 10 * DocFreq(t, doc_terms) <= 8 * n_doc}
    IN  [ok |-> all # {} /\ 8 * n_doc >= 10 * 2 /\ kept # {}, vocabulary |-> kept]

\* fit_transform of the fallback TfidfVectorizer(ngram_range=(1, 2),
\* min_df=1) (lines 120-121): raises ValueError for an empty vocabulary
fallback_fit_transform(documents) ==
    LET doc_terms == [k \in 1..Len(documents) |-> NGrams(Tokenize(documents[k]), 2)]
        all       == UNION {doc_terms[k] : k \in 1..Len(documents)}
    IN  [ok |-> all # {}, vocabulary |-> all]

\* mutant of fit_documents: no fallback, the ValueError of the first
\* fit_transform leaves fit
fit_documents_no_fallback(t, documents, ids) ==
    LET processed == [k \in 1..Len(documents) |-> preprocess_text(documents[k])]
        primary   == primary_fit_transform(processed)
    IN  IF primary.ok
        THEN [ok |-> TRUE, fallback |-> FALSE, vocabulary |-> primary.vocabulary,
              tfidf |-> [is_fitted |-> TRUE, ids |-> ids]]
        ELSE [ok |-> FALSE, fallback |-> FALSE, vocabulary |-> {},
              tfidf |-> [t EXCEPT !.ids = ids]]

\* TFIDFService.fit(documents, qa_pairs) on the service in state t, ids
\* being the ids of qa_pairs: what it leaves and whether it returns (ok) or
\* raises the ValueError of the fallback's fit_transform
fit_documents(t, documents, ids) ==
    LET processed == [k \in 1..Len(documents) |-> preprocess_text(documents[k])]
        primary   == primary_fit_transform(processed)
        fallback  == fallback_fit_transform(processed)
    IN  IF primary.ok
        THEN [ok |-> TRUE, fallback |-> FALSE, vocabulary |-> primary.vocabulary,
              tfidf |-> [is_fitted |-> TRUE, ids |-> ids]]
        ELSE IF fallback.ok
        THEN [ok |-> TRUE, fallback |-> TRUE, vocabulary |-> fallback.vocabulary,
              tfidf |-> [is_fitted |-> TRUE, ids |-> ids]]
        ELSE [ok |-> FALSE, fallback |-> TRUE, vocabulary |-> {},
              tfidf |-> [t EXCEPT !.ids = ids]]

\* ------------------------------------------------- app/rag_service.py

\* HybridSearchResult for an entry found by the semantic search (lines 172-179)
SemanticCandidate(r, ws) ==
    [id |-> r.qa_id, semantic_score |-> r.similarity, keyword_score |-> 0,
     combined_score |-> r.similarity * ws, match_type |-> "semantic"]

\* mutant of KeywordCandidate: the keyword-only entry is labelled as a
\* semantic match
KeywordCandidateMislabelled(r, wk) ==
    [id |-> r.qa_id, semantic_score |-> 0, keyword_score |-> r.score,
     combined_score |-> r.score * wk, match_type |-> "semantic"]

\* HybridSearchResult for an entry found by the keyword search alone (202-209)
KeywordCandidate(r, wk) ==
    [id |-> r.qa_id, semantic_score |-> 0, keyword_score |-> r.score,
     combined_score |-> r.score * wk, match_type |-> "keyword"]

\* mutant of BothCandidate: the update overwrites the semantic score
BothCandidateSemanticLost(c, r, ws, wk) ==
    [c EXCEPT !.semantic_score = 0, !.keyword_score = r.score,
              !.combined_score = r.score * wk, !.match_type = "both"]

\* the update of an entry already in results_map (lines 187-193)
BothCandidate(c, r, ws, wk) ==
    [c EXCEPT !.keyword_score = r.score,
              !.combined_score = c.semantic_score * ws + r.score * wk,
              !.match_type = "both"]

\* results_map is a dict keyed by qa_id: a sequence of values in insertion
\* order with at most one value per key; KeyIndex is 0 for a missing key
KeyIndex(map, qa_id) ==
    LET ks == {k \in 1..Len(map) : map[k].id = qa_id}
    IN  IF ks = {} THEN 0 ELSE Min(ks)

\* results_map[qa_id] = value
SetItem(map, value) ==
    IF KeyIndex(map, value.id) = 0 THEN Append(map, value)
    ELSE [map EXCEPT ![KeyIndex(map, value.id)] = value]

\* the loop over semantic_results (lines 169-181)
RECURSIVE AddSemantic(_, _, _)
AddSemantic(map, semantic_results, ws) ==
    IF semantic_results = <<>> THEN map
    ELSE AddSemantic(SetItem(map, SemanticCandidate(Head(semantic_results), ws)),
                     Tail(semantic_results), ws)

\* mutant of AddKeyword: every keyword result becomes a new candidate, an
\* entry already found semantically is not looked up
RECURSIVE AddKeywordNoLookup(_, _, _, _)
AddKeywordNoLookup(map, keyword_results, ws, wk) ==
    IF keyword_results = <<>> THEN map
    ELSE AddKeywordNoLookup(Append(map, KeywordCandidate(Head(keyword_results), wk)),
                            Tail(keyword_results), ws, wk)

\* mutant of AddKeyword: the update of an existing candidate sets the keyword
\* score and the match type but leaves combined_score as it was
RECURSIVE AddKeywordStaleScore(_, _, _, _)
AddKeywordStaleScore(map, keyword_results, ws, wk) ==
    IF keyword_results = <<>> THEN map
    ELSE LET r == Head(keyword_results)
             k == KeyIndex(map, r.qa_id)
         IN  AddKeywordStaleScore(
                 IF k # 0
                 THEN [map EXCEPT ![k] = [map[k] EXCEPT !.keyword_score = r.score,
                                                        !.match_type = "both"]]
                 ELSE SetItem(map, KeywordCandidate(r, wk)),
                 Tail(keyword_results), ws, wk)

\* the loop over keyword_results (lines 184-211)
RECURSIVE AddKeyword(_, _, _, _)
AddKeyword(map, keyword_results, ws, wk) ==
    IF keyword_results = <<>> THEN map
    ELSE LET r == Head(keyword_results)
             k == KeyIndex(map, r.qa_id)
         IN  AddKeyword(
                 IF k # 0
                 THEN [map EXCEPT ![k] = BothCandidate(map[k], r, ws, wk)]
                 ELSE SetItem(map, KeywordCandidate(r, wk)),
                 Tail(keyword_results), ws, wk)

\* mutant of SortByCombined: the candidates stay in the order of the merge
SortByCombinedInsertionOrder(seq) == seq

\* mutant of SortByCombined: the list is returned in ascending order
RECURSIVE SortByCombinedAscending(_)
SortByCombinedAscending(seq) ==
    IF seq = <<>> THEN <<>>
    ELSE LET front == SortByCombinedAscending(SubSeq(seq, 1, Len(seq) - 1))
             c     == seq[Len(seq)]
             k     == Cardinality({i \in 1..Len(front) :
                                     front[i].combined_score <= c.combined_score})
         IN  SubSeq(front, 1, k) \o <<c>> \o SubSeq(front, k + 1, Len(front))

\* final_results.sort(key=combined_score, reverse=True): Python's sort is
\* stable, also with reverse=True, so equal scores keep their list order
RECURSIVE SortByCombined(_)
SortByCombined(seq) ==
    IF seq = <<>> THEN <<>>
    ELSE LET front == SortByCombined(SubSeq(seq, 1, Len(seq) - 1))
             c     == seq[Len(seq)]
             k     == Cardinality({i \in 1..Len(front) :
                                     front[i].combined_score >= c.combined_score})
         IN  SubSeq(front, 1, k) \o <<c>> \o SubSeq(front, k + 1, Len(front))

NoContext == [kind |-> "none", parts |-> <<>>]

NoRequest == [op |-> "none", embed_ok |-> TRUE, n_results |-> 0,
              max_context_length |-> 0]

NoResponse == [status |-> "none", semantic_results |-> <<>>, keyword_results |-> <<>>,
               merged |-> <<>>, results |-> <<>>, context |-> NoContext]

\* an exception leaves the call: nothing is returned
Raised == [NoResponse EXCEPT !.status = "error"]

\* steps 3 and 4 of HybridRAGService.search (lines 165-220); get_by_id
\* raises when an index returns an id the parser does not hold
merge_and_rank(pairs, ws, wk, semantic_results, keyword_results, n) ==
    LET merged == AddKeyword(AddSemantic(<<>>, semantic_results, ws),
                             keyword_results, ws, wk)
    IN  IF \/ \E i \in 1..Len(semantic_results) : ~HasId(pairs, semantic_results[i].qa_id)
           \/ \E i \in 1..Len(keyword_results) : ~HasId(pairs, keyword_results[i].qa_id)
        THEN Raised
        ELSE [status |-> "ok", semantic_results |-> semantic_results,
              keyword_results |-> keyword_results, merged |-> merged,
              results |-> FirstN(SortByCombined(merged), n), context |-> NoContext]

\* mutant of search: a failed embedding call is caught and the ranking is
\* built from the keyword results alone
search_lexical_fallback(pairs, ws, wk, embed_ok, query_ok, semantic_results, keyword_results, n) ==
    IF ~embed_ok \/ ~query_ok
    THEN merge_and_rank(pairs, ws, wk, <<>>, keyword_results, n)
    ELSE merge_and_rank(pairs, ws, wk, semantic_results, keyword_results, n)

\* HybridRAGService.search(query, n_results): create_embedding (lines 156)
\* and collection.query (157-160) raise through search; embed_ok and
\* query_ok say whether they returned
search(pairs, ws, wk, embed_ok, query_ok, semantic_results, keyword_results, n) ==
    IF ~embed_ok \/ ~query_ok THEN Raised
    ELSE merge_and_rank(pairs, ws, wk, semantic_results, keyword_results, n)

\* len(f"Q: {question}\nA: {answer}")
QaTextLen(pair) == 3 + CharLen(pair.question) + 4 + CharLen(pair.answer)

\* the loop of get_context_for_llm (lines 263-272): the ids of the blocks
\* appended to context_parts
RECURSIVE ContextParts(_, _, _, _)
ContextParts(pairs, results, total_length, max_context_length) ==
    IF results = <<>> THEN <<>>
    ELSE LET qa_text == QaTextLen(get_by_id(pairs, Head(results).id))
         IN  IF total_length + qa_text > max_context_length THEN <<>>
             ELSE <<Head(results).id>>
                  \o ContextParts(pairs, Tail(results), total_length + qa_text,
                                  max_context_length)

\* len("\n\n---\n\n"), the separator of line 275
SeparatorLen == 7

\* len("\n\n---\n\n".join(context_parts)) for the blocks of the given entries
RECURSIVE JoinedLen(_, _)
JoinedLen(pairs, parts) ==
    IF parts = <<>> THEN 0
    ELSE QaTextLen(get_by_id(pairs, Head(parts)))
         + (IF Tail(parts) = <<>> THEN 0
            ELSE SeparatorLen + JoinedLen(pairs, Tail(parts)))

\* the number of results get_context_for_llm asks search for
ContextResults == 6

\* mutant of get_context_for_llm: no fixed string for an empty result list,
\* the header is returned with nothing behind it
get_context_for_llm_no_sentinel(pairs, found, max_context_length) ==
    IF found.status # "ok" THEN found
    ELSE [found EXCEPT !.context =
            [kind |-> "context",
             parts |-> ContextParts(pairs, found.results, 0, max_context_length)]]

\* HybridRAGService.get_context_for_llm given what its search call left:
\* kind "sentinel" is the fixed no-information string, kind "context" the
\* header followed by the joined blocks
get_context_for_llm(pairs, found, max_context_length) ==
    IF found.status # "ok" THEN found
    ELSE IF found.results = <<>>
    THEN [found EXCEPT !.context = [kind |-> "sentinel", parts |-> <<>>]]
    ELSE [found EXCEPT !.context =
            [kind |-> "context",
             parts |-> ContextParts(pairs, found.results, 0, max_context_length)]]

\* mutant of WeightsAccepted: the weights are not checked
WeightsUnchecked(ws, wk) == TRUE

\* the assert of HybridRAGService.__init__ (line 78)
WeightsAccepted(ws, wk) == Abs(ws + wk - One) < Tolerance

IdSet(pairs) == {pairs[k].id : k \in 1..Len(pairs)}

\* HybridRAGService.__init__ and _initialize_knowledge_base: what they leave
\* behind.  ollama is "down" (EmbeddingsService() raises), "flaky" (an
\* embedding call of the batch raises) or "up".
construct(st, text, ws, wk, ollama) ==
    LET unbuilt == [svc |-> "failed", qa_pairs |-> <<>>, parse_status |-> "new",
                    store |-> st, handle |-> 0, tfidf |-> NotFitted]
        c == init_collection(st)
        p == parse(text)
        a == add_embeddings(c.store, c.handle, IdSet(p.qa_pairs))
        parsed == [unbuilt EXCEPT !.store = c.store, !.handle = c.handle,
                                  !.qa_pairs = p.qa_pairs,
                                  !.parse_status = IF p.ok THEN "ok" ELSE "error"]
    IN  IF ~WeightsAccepted(ws, wk) \/ ollama = "down" THEN unbuilt
        ELSE IF ~p.ok \/ ollama = "flaky" THEN parsed
        ELSE IF ~a.ok THEN [parsed EXCEPT !.store = a.store]
        ELSE [parsed EXCEPT !.svc = "ready", !.store = a.store, !.handle = a.handle,
                            !.tfidf = fit(p.qa_pairs)]

\* ------------------------------------------- specification of the parser

InitParse ==
    /\ content \in TextsUpTo(MaxLen)
    /\ qa_pairs = <<>>
    /\ parse_status = "new"
    /\ svc = "new"
    /\ semantic_weight = 0
    /\ keyword_weight = 0
    /\ store = NoCollection
    /\ handle = 0
    /\ tfidf = NotFitted
    /\ request = NoRequest
    /\ response = NoResponse
    /\ procs = <<>> /\ app = <<>>

\* parser.parse() succeeds
ParseOk ==
    /\ parse_status = "new"
    /\ parse(content).ok
    /\ qa_pairs' = parse(content).qa_pairs
    /\ parse_status' = "ok"
    /\ UNCHANGED <<procs, app>>
    /\ UNCHANGED <<content, svc, semantic_weight, keyword_weight, store, handle,
                   tfidf, request, response>>

\* parser.parse() raises: self.qa_pairs was reset to the empty list
ParseError ==
    /\ parse_status = "new"
    /\ ~parse(content).ok
    /\ qa_pairs' = parse(content).qa_pairs
    /\ parse_status' = "error"
    /\ UNCHANGED <<procs, app>>
    /\ UNCHANGED <<content, svc, semantic_weight, keyword_weight, store, handle,
                   tfidf, request, response>>

NextParse == ParseOk \/ ParseError

SpecParse == InitParse /\ [][NextParse]_vars

\* ------------------------------------- specification of the hybrid service

\* one question/answer pair of a knowledge base file: "plain" is a valid
\* pair, "noq" has an empty question and is discarded by parse, "long" is a
\* valid pair with a question of two words
PairText(kind) ==
    CASE kind = "plain" -> <<"Q", "_", "x", "_", "A", "_", "x", "_">>
      [] kind = "noq"   -> <<"Q", "_", "A", "_", "x", "_">>
      [] kind = "long"  -> <<"Q", "_", "x", "_", "x", "_", "A", "_", "x", "_">>

RECURSIVE Concat(_)
Concat(kinds) ==
    IF kinds = <<>> THEN <<>> ELSE PairText(Head(kinds)) \o Concat(Tail(kinds))

\* the knowledge base files of the service specification
KnowledgeBases ==
    {Concat(kinds) : kinds \in UNION {[1..k -> {"plain", "noq"}] : k \in 0..MaxPairs}}

\* what ./chroma_db holds when the process starts: nothing, or the
\* collection of an earlier run
InitialStores ==
    {NoCollection,
     [exists |-> TRUE, uid |-> 1, cosine |-> TRUE, items |-> {0, 1}, created |-> 1]}

\* (semantic_weight, keyword_weight) pairs a caller passes: the defaults
\* 0.6/0.4, pairs within the tolerance of the weight check, and one outside
WeightPairs == {<<600, 400>>, <<605, 400>>, <<1500, -500>>, <<500, 400>>}

\* cosine distances the collection reports for the service specification
Distances == {0, One, 2 * One, 3 * One}

\* cosine similarities of a query to a document in TF-IDF space
KeywordScores == {0, One \div 2, One}

\* max_context_length values a caller passes; 2000 is the default
ContextLengths == {0, 20, 2000}

Init ==
    /\ content \in KnowledgeBases
    /\ qa_pairs = <<>>
    /\ parse_status = "new"
    /\ svc = "new"
    /\ semantic_weight = 0
    /\ keyword_weight = 0
    /\ store \in InitialStores
    /\ handle = 0
    /\ tfidf = NotFitted
    /\ request = NoRequest
    /\ response = NoResponse
    /\ procs = <<>> /\ app = <<>>

\* HybridRAGService(knowledge_base_path, semantic_weight, keyword_weight)
Construct(ws, wk, ollama) ==
    /\ svc = "new"
    /\ LET made == construct(store, content, ws, wk, ollama)
       IN  /\ svc' = made.svc
           /\ qa_pairs' = made.qa_pairs
           /\ parse_status' = made.parse_status
           /\ store' = made.store
           /\ handle' = made.handle
           /\ tfidf' = made.tfidf
    /\ semantic_weight' = ws
    /\ keyword_weight' = wk
    /\ UNCHANGED <<procs, app>>
    /\ UNCHANGED <<content, request, response>>

\* what a call of search can leave on a service with the given entries,
\* weights and indices, over every answer of the embedding provider and of
\* the two indices
SearchOutcomesOn(pairs, ws, wk, st, h, t, embed_ok, n) ==
    IF ~embed_ok
    THEN {search(pairs, ws, wk, FALSE, TRUE, <<>>, <<>>, n)}
    ELSE {search(pairs, ws, wk, TRUE,
                 st.exists /\ st.uid = h,
                 chroma_search(nearest, dist),
                 tfidf_search(t, sims, order, n), n) :
            <<dist, nearest, sims, order>> \in
              UNION {UNION {UNION {{<<d, q, s, o>> : o \in ArgsortDescending(s)} :
                                     s \in [1..Len(t.ids) -> KeywordScores]} :
                            q \in QueryOrders(st.items, d, n)} :
                     d \in [st.items -> Distances]}}

\* what a call of search on the built service can leave
SearchOutcomes(embed_ok, n) ==
    SearchOutcomesOn(qa_pairs, semantic_weight, keyword_weight, store, handle,
                     tfidf, embed_ok, n)

\* rag.search(query, n_results)
Search(embed_ok, n) ==
    /\ svc = "ready"
    /\ request.op = "none"
    /\ request' = [op |-> "search", embed_ok |-> embed_ok, n_results |-> n,
                   max_context_length |-> 0]
    /\ response' \in SearchOutcomes(embed_ok, n)
    /\ UNCHANGED <<procs, app>>
    /\ UNCHANGED <<content, qa_pairs, parse_status, svc, semantic_weight,
                   keyword_weight, store, handle, tfidf>>

\* rag.get_context_for_llm(query, max_context_length)
GetContextForLLM(embed_ok, max_context_length) ==
    /\ svc = "ready"
    /\ request.op = "none"
    /\ request' = [op |-> "context", embed_ok |-> embed_ok,
                   n_results |-> ContextResults,
                   max_context_length |-> max_context_length]
    /\ response' \in {get_context_for_llm(qa_pairs, found, max_context_length) :
                        found \in SearchOutcomes(embed_ok, ContextResults)}
    /\ UNCHANGED <<procs, app>>
    /\ UNCHANGED <<content, qa_pairs, parse_status, svc, semantic_weight,
                   keyword_weight, store, handle, tfidf>>

\* rag.chromadb_service.clear_collection()
ClearCollection ==
    /\ svc = "ready"
    /\ request.op = "none"
    /\ store.items # {}
    /\ LET c == clear_collection(store, handle)
       IN  store' = c.store /\ handle' = c.handle
    /\ UNCHANGED <<procs, app>>
    /\ UNCHANGED <<content, qa_pairs, parse_status, svc, semantic_weight,
                   keyword_weight, tfidf, request, response>>

\* the caller takes the returned value (or the exception): the call is over
Return ==
    /\ request.op # "none"
    /\ request' = NoRequest
    /\ response' = NoResponse
    /\ UNCHANGED <<procs, app>>
    /\ UNCHANGED <<content, qa_pairs, parse_status, svc, semantic_weight,
                   keyword_weight, store, handle, tfidf>>

Next ==
    \/ \E w \in WeightPairs, ollama \in {"down", "flaky", "up"} :
         Construct(w[1], w[2], ollama)
    \/ \E embed_ok \in BOOLEAN, n \in 1..MaxN : Search(embed_ok, n)
    \/ \E embed_ok \in BOOLEAN, m \in ContextLengths : GetContextForLLM(embed_ok, m)
    \/ ClearCollection
    \/ Return

Spec == Init /\ [][Next]_vars

\* -------------------------------- specification of the merge on any lists

\* the service built with the default weights from a knowledge base of
\* three valid pairs (ids 0, 1, 2) on an empty ./chroma_db
BuiltService == construct(NoCollection, Concat(<<"plain", "plain", "plain">>),
                          600, 400, "up")

BuiltState ==
    /\ content = Concat(<<"plain", "plain", "plain">>)
    /\ qa_pairs = BuiltService.qa_pairs
    /\ parse_status = BuiltService.parse_status
    /\ svc = BuiltService.svc
    /\ semantic_weight = 600
    /\ keyword_weight = 400
    /\ store = BuiltService.store
    /\ handle = BuiltService.handle
    /\ tfidf = BuiltService.tfidf
    /\ request = NoRequest
    /\ response = NoResponse

InitBuilt == BuiltState /\ procs = <<>> /\ app = <<>>

\* result lists of any shape: ids may repeat inside a list and across lists
SemanticLists ==
    UNION {[1..k -> [qa_id : IdSet(BuiltService.qa_pairs),
                     similarity : {One \div 2, One}]] : k \in 0..MaxListLen}

KeywordLists ==
    UNION {[1..k -> [qa_id : IdSet(BuiltService.qa_pairs),
                     score : {One \div 2, One}]] : k \in 0..MaxListLen}

\* steps 3 and 4 of search applied to two given result lists
Merge(n) ==
    /\ svc = "ready"
    /\ request.op = "none"
    /\ request' = [op |-> "merge", embed_ok |-> TRUE, n_results |-> n,
                   max_context_length |-> 0]
    /\ \E semantic_results \in SemanticLists, keyword_results \in KeywordLists :
         response' = merge_and_rank(qa_pairs, semantic_weight, keyword_weight,
                                    semantic_results, keyword_results, n)
    /\ UNCHANGED <<procs, app>>
    /\ UNCHANGED <<content, qa_pairs, parse_status, svc, semantic_weight,
                   keyword_weight, store, handle, tfidf>>

NextFusion ==
    \/ \E n \in 1..MaxN : Merge(n)
    \/ Return

SpecFusion == InitBuilt /\ [][NextFusion]_vars

\* ------------------------- specification of the vector search on its own

\* distances in steps of 0.25 up to the bound, and some far larger ones
DenseDistances ==
    {k * (One \div 4) : k \in 0..MaxDistanceSteps} \cup {100 * One, 400 * One}

\* chromadb_service.search(query_embedding, n_results)
ChromaSearch(n) ==
    /\ svc = "ready"
    /\ request.op = "none"
    /\ \E dist \in [store.items -> DenseDistances] :
         \E nearest \in QueryOrders(store.items, dist, n) :
           /\ request' = [op |-> "chroma_search", n_results |-> n, dist |-> dist]
           /\ response' = [NoResponse EXCEPT
                             !.status = "ok",
                             !.semantic_results = chroma_search(nearest, dist)]
    /\ UNCHANGED <<procs, app>>
    /\ UNCHANGED <<content, qa_pairs, parse_status, svc, semantic_weight,
                   keyword_weight, store, handle, tfidf>>

\* embeddings up to their direction: e1, a direction orthogonal to it, -e1
Directions == 1..3

\* the cosine distance 1 - cos of two of these directions: 0, 1 or 2
CosineDistance(u, v) == Abs(u - v) * One

\* chromadb_service.search(create_embedding(query), n_results) for a query
\* equal to the composite text of the stored entry: create_embedding is a
\* function of the text, so the query has the embedding stored for the entry
ChromaSearchIdentical(n) ==
    /\ svc = "ready"
    /\ request.op = "none"
    /\ \E embedding \in [store.items -> Directions], entry \in store.items :
         LET dist == [j \in store.items |->
                        CosineDistance(embedding[entry], embedding[j])]
         IN  \E nearest \in QueryOrders(store.items, dist, n) :
               /\ request' = [op |-> "chroma_search_identical", n_results |-> n,
                              dist |-> dist, entry |-> entry]
               /\ response' = [NoResponse EXCEPT
                                 !.status = "ok",
                                 !.semantic_results = chroma_search(nearest, dist)]
    /\ UNCHANGED <<procs, app>>
    /\ UNCHANGED <<content, qa_pairs, parse_status, svc, semantic_weight,
                   keyword_weight, store, handle, tfidf>>

NextChroma ==
    \/ \E n \in 1..MaxN : ChromaSearch(n)
    \/ \E n \in 1..MaxN : ChromaSearchIdentical(n)
    \/ Return

SpecChroma == InitBuilt /\ [][NextChroma]_vars

\* ------------------------- specification of the lexical service on its own

\* a piece of a text handed to preprocess_text
Segment(kind) ==
    CASE kind = "word"  -> <<"a", "n", "a">>
      [] kind = "upper" -> <<"B", "a">>
      [] kind = "space" -> <<"_">>
      [] kind = "dot"   -> <<".">>
      [] kind = "email" -> <<"a", "@", "n", ".", "a", "a">>
      [] kind = "url"   -> <<"h", ":", "/", "/", "a", ".", "n", "/", "a">>

SegmentKinds == {"word", "upper", "space", "dot", "email", "url"}

RECURSIVE ConcatSegments(_)
ConcatSegments(kinds) ==
    IF kinds = <<>> THEN <<>>
    ELSE Segment(Head(kinds)) \o ConcatSegments(Tail(kinds))

\* the texts of the lexical specification
SegmentTexts ==
    {ConcatSegments(kinds) :
        kinds \in UNION {[1..k -> SegmentKinds] : k \in 0..MaxSegments}}

\* the documents of a corpus: "aa", "nn", "an" (a stop word), "a" (too
\* short to be a token) and "aa nn"
DocTexts ==
    {<<"a", "a">>, <<"n", "n">>, <<"a", "n">>, <<"a">>, <<"a", "a", "_", "n", "n">>}

Corpora == UNION {[1..k -> DocTexts] : k \in 0..MaxDocs}

InitTfidf ==
    /\ content = <<>>
    /\ qa_pairs = <<>>
    /\ parse_status = "new"
    /\ svc = "new"
    /\ semantic_weight = 0
    /\ keyword_weight = 0
    /\ store = NoCollection
    /\ handle = 0
    /\ tfidf = NotFitted
    /\ request = NoRequest
    /\ response = NoResponse
    /\ procs = <<>> /\ app = <<>>

\* tfidf_service.preprocess_text(text)
PreprocessText ==
    /\ request.op = "none"
    /\ \E text \in SegmentTexts :
         /\ request' = [op |-> "preprocess_text", text |-> text]
         /\ response' = [status |-> "ok", text |-> preprocess_text(text)]
    /\ UNCHANGED <<procs, app>>
    /\ UNCHANGED <<content, qa_pairs, parse_status, svc, semantic_weight,
                   keyword_weight, store, handle, tfidf>>

\* tfidf_service.fit(documents, qa_pairs), the pairs having the ids 0, 1, ...
Fit ==
    /\ request.op = "none"
    /\ \E documents \in Corpora :
         LET done == fit_documents(tfidf, documents,
                                   [k \in 1..Len(documents) |-> k - 1])
         IN  /\ request' = [op |-> "fit", documents |-> documents]
             /\ response' = [status |-> IF done.ok THEN "ok" ELSE "error",
                             fallback |-> done.fallback,
                             vocabulary |-> done.vocabulary]
             /\ tfidf' = done.tfidf
    /\ UNCHANGED <<procs, app>>
    /\ UNCHANGED <<content, qa_pairs, parse_status, svc, semantic_weight,
                   keyword_weight, store, handle>>

\* tfidf_service.search(query, n_results)
TfidfSearch(n) ==
    /\ request.op = "none"
    /\ \E sims \in [1..Len(tfidf.ids) -> KeywordScores] :
         \E order \in ArgsortDescending(sims) :
           /\ request' = [op |-> "tfidf_search", n_results |-> n,
                          not_fitted |-> ~tfidf.is_fitted,
                          similarities |-> sims]
           /\ response' = [status |-> "ok",
                           keyword_results |-> tfidf_search(tfidf, sims, order, n)]
    /\ UNCHANGED <<procs, app>>
    /\ UNCHANGED <<content, qa_pairs, parse_status, svc, semantic_weight,
                   keyword_weight, store, handle, tfidf>>

NextTfidf ==
    \/ PreprocessText
    \/ Fit
    \/ \E n \in 1..MaxN : TfidfSearch(n)
    \/ Return

SpecTfidf == InitTfidf /\ [][NextTfidf]_vars

\* --------------------- specification of a rebuild beside running queries

\* client.get_collection(name): the uid of the collection, 0 when it raises
get_collection(st) == IF st.exists /\ st.cosine THEN st.uid ELSE 0

\* collection.query through a handle: raises when the collection the handle
\* names is gone, else answers from the items the collection holds now
collection_query(st, h) ==
    IF st.exists /\ st.uid = h
    THEN [seen |-> "answered", items |-> st.items]
    ELSE [seen |-> "failed", items |-> {}]

NewProc == [pc |-> "new", handle |-> 0, seen |-> "none", items |-> {}]

\* the server holds the built service; rebuilders and readers start beside it
InitRebuild ==
    /\ BuiltState
    /\ procs = [server |-> [NewProc EXCEPT !.pc = "serving", !.handle = handle],
                rebuilders |-> [i \in 1..NumRebuilders |-> NewProc],
                readers |-> [j \in 1..NumReaders |-> NewProc]]
    /\ app = <<>>

\* the server answers a query: chromadb_service.search on its collection
ServerQuery ==
    /\ procs.server.pc = "serving"
    /\ LET q == collection_query(store, procs.server.handle)
       IN  procs' = [procs EXCEPT !.server.seen = q.seen, !.server.items = q.items]
    /\ UNCHANGED app
    /\ UNCHANGED <<content, qa_pairs, parse_status, svc, semantic_weight,
                   keyword_weight, store, handle, tfidf, request, response>>

\* _init_collection, first half: get_collection, in ChromaDBService() (pc
\* "new") and again in add_embeddings after the delete (pc "deleted")
RebuilderGet(i) ==
    /\ procs.rebuilders[i].pc \in {"new", "deleted"}
    /\ LET me == procs.rebuilders[i]
           h  == get_collection(store)
       IN  procs' = [procs EXCEPT !.rebuilders[i] =
              IF h # 0
              THEN [me EXCEPT !.handle = h,
                              !.pc = IF me.pc = "new" THEN "client" ELSE "recreated"]
              ELSE [me EXCEPT !.pc = IF me.pc = "new" THEN "creating" ELSE "recreating"]]
    /\ UNCHANGED app
    /\ UNCHANGED <<content, qa_pairs, parse_status, svc, semantic_weight,
                   keyword_weight, store, handle, tfidf, request, response>>

\* _init_collection, second half: create_collection raises when another
\* process created the collection in between
RebuilderCreate(i) ==
    /\ procs.rebuilders[i].pc \in {"creating", "recreating"}
    /\ LET me == procs.rebuilders[i]
       IN  IF store.exists
           THEN /\ procs' = [procs EXCEPT !.rebuilders[i].pc = "failed"]
                /\ UNCHANGED store
           ELSE /\ store' = create_collection(store)
                /\ procs' = [procs EXCEPT !.rebuilders[i] =
                      [me EXCEPT !.handle = store.created + 1,
                                 !.pc = IF me.pc = "creating" THEN "client"
                                        ELSE "recreated"]]
    /\ UNCHANGED app
    /\ UNCHANGED <<content, qa_pairs, parse_status, svc, semantic_weight,
                   keyword_weight, handle, tfidf, request, response>>

\* add_embeddings(force_reset=True): client.delete_collection(name), after
\* the knowledge base was parsed and the embeddings were created
RebuilderDelete(i) ==
    /\ procs.rebuilders[i].pc = "client"
    /\ LET d == delete_collection(store)
       IN  /\ store' = d.store
           /\ procs' = [procs EXCEPT !.rebuilders[i].pc =
                          IF d.ok THEN "deleted" ELSE "failed"]
    /\ UNCHANGED app
    /\ UNCHANGED <<content, qa_pairs, parse_status, svc, semantic_weight,
                   keyword_weight, handle, tfidf, request, response>>

\* add_embeddings: collection.add of all embeddings in one call
RebuilderAdd(i) ==
    /\ procs.rebuilders[i].pc = "recreated"
    /\ LET a == collection_add(store, procs.rebuilders[i].handle, IdSet(qa_pairs))
       IN  /\ store' = a.store
           /\ procs' = [procs EXCEPT !.rebuilders[i].pc =
                          IF a.ok THEN "done" ELSE "failed"]
    /\ UNCHANGED app
    /\ UNCHANGED <<content, qa_pairs, parse_status, svc, semantic_weight,
                   keyword_weight, handle, tfidf, request, response>>

\* a reader's ChromaDBService(): get_collection
ReaderGet(j) ==
    /\ procs.readers[j].pc = "new"
    /\ LET h == get_collection(store)
       IN  procs' = [procs EXCEPT !.readers[j] =
              IF h # 0 THEN [@ EXCEPT !.handle = h, !.pc = "open"]
              ELSE [@ EXCEPT !.pc = "creating"]]
    /\ UNCHANGED app
    /\ UNCHANGED <<content, qa_pairs, parse_status, svc, semantic_weight,
                   keyword_weight, store, handle, tfidf, request, response>>

\* a reader's ChromaDBService(): create_collection after get_collection raised
ReaderCreate(j) ==
    /\ procs.readers[j].pc = "creating"
    /\ IF store.exists
       THEN /\ procs' = [procs EXCEPT !.readers[j].pc = "failed"]
            /\ UNCHANGED store
       ELSE /\ store' = create_collection(store)
            /\ procs' = [procs EXCEPT !.readers[j] =
                  [@ EXCEPT !.handle = store.created + 1, !.pc = "open"]]
    /\ UNCHANGED app
    /\ UNCHANGED <<content, qa_pairs, parse_status, svc, semantic_weight,
                   keyword_weight, handle, tfidf, request, response>>

\* a reader's chromadb_service.search: collection.query
ReaderQuery(j) ==
    /\ procs.readers[j].pc = "open"
    /\ LET q == collection_query(store, procs.readers[j].handle)
       IN  procs' = [procs EXCEPT !.readers[j] =
              [@ EXCEPT !.seen = q.seen, !.items = q.items, !.pc = "done"]]
    /\ UNCHANGED app
    /\ UNCHANGED <<content, qa_pairs, parse_status, svc, semantic_weight,
                   keyword_weight, store, handle, tfidf, request, response>>

NextRebuild ==
    \/ ServerQuery
    \/ \E i \in 1..NumRebuilders :
         RebuilderGet(i) \/ RebuilderCreate(i) \/ RebuilderDelete(i) \/ RebuilderAdd(i)
    \/ \E j \in 1..NumReaders : ReaderGet(j) \/ ReaderCreate(j) \/ ReaderQuery(j)

SpecRebuild == InitRebuild /\ [][NextRebuild]_vars

\* ------------------------- specification of the build of the vector index

MaxFilePairs == 3

\* QAPair.to_text: f"Question: {question}\nAnswer: {answer}"
to_text(pair) ==
    <<"Question:", "_">> \o pair.question \o <<"_", "Answer:", "_">> \o pair.answer

\* mutant of create_embeddings_batch: a call that raises is skipped and the
\* loop goes on with the next text
create_embeddings_batch_skips(texts, fail_at) ==
    [ok |-> TRUE,
     calls |-> texts,
     embeddings |-> SelectSeq([i \in 1..Len(texts) |-> [call |-> i, prompt |-> texts[i]]],
                              LAMBDA e : e.call # fail_at)]

\* EmbeddingsService.create_embeddings_batch(texts): one create_embedding
\* call per text, in order; the call number fail_at raises (0: none does)
\* and the exception leaves the loop.  The vector a call returns is named
\* by the number of the call and its prompt.
create_embeddings_batch(texts, fail_at) ==
    [ok |-> fail_at = 0,
     calls |-> IF fail_at = 0 THEN texts ELSE SubSeq(texts, 1, fail_at),
     embeddings |-> IF fail_at = 0
                    THEN [i \in 1..Len(texts) |-> [call |-> i, prompt |-> texts[i]]]
                    ELSE <<>>]

\* the lists add_embeddings hands to collection.add (lines 134-154): the
\* i-th id "qa_{id}" goes with the i-th embedding
AddedItems(pairs, embeddings) ==
    [i \in 1..Min2(Len(pairs), Len(embeddings)) |->
        [id |-> pairs[i].id, embedding |-> embeddings[i]]]

\* the knowledge base files of this specification
IndexedKnowledgeBases ==
    {Concat(kinds) :
        kinds \in UNION {[1..k -> {"plain", "noq", "long"}] : k \in 0..MaxFilePairs}}

InitInitialize ==
    /\ content \in IndexedKnowledgeBases
    /\ qa_pairs = <<>>
    /\ parse_status = "new"
    /\ svc = "new"
    /\ semantic_weight = 0
    /\ keyword_weight = 0
    /\ store \in InitialStores
    /\ handle = 0
    /\ tfidf = NotFitted
    /\ request = NoRequest
    /\ response = NoResponse
    /\ procs = <<>> /\ app = <<>>

\* HybridRAGService(knowledge_base_path) with Ollama reachable: the
\* constructor and _initialize_knowledge_base, with the embedding calls it
\* makes and the items it hands to the collection
InitializeKnowledgeBase(fail_at) ==
    /\ svc = "new"
    /\ request.op = "none"
    /\ fail_at <= Len(parse(content).qa_pairs)
    /\ parse(content).ok \/ fail_at = 0
    /\ LET p == parse(content)
           texts == [k \in 1..Len(p.qa_pairs) |-> to_text(p.qa_pairs[k])]
           batch == IF p.ok THEN create_embeddings_batch(texts, fail_at)
                    ELSE [ok |-> FALSE, calls |-> <<>>, embeddings |-> <<>>]
           made == construct(store, content, 600, 400,
                             IF batch.ok \/ ~p.ok THEN "up" ELSE "flaky")
       IN  /\ svc' = made.svc
           /\ qa_pairs' = made.qa_pairs
           /\ parse_status' = made.parse_status
           /\ store' = made.store
           /\ handle' = made.handle
           /\ tfidf' = made.tfidf
           /\ request' = [op |-> "initialize", fail_at |-> fail_at,
                          store_before |-> store]
           /\ response' = [status |-> IF made.svc = "ready" THEN "ok" ELSE "error",
                           calls |-> batch.calls,
                           added |-> IF batch.ok /\ made.svc = "ready"
                                     THEN AddedItems(p.qa_pairs, batch.embeddings)
                                     ELSE <<>>]
    /\ semantic_weight' = 600
    /\ keyword_weight' = 400
    /\ UNCHANGED <<procs, app>>
    /\ UNCHANGED content

NextInitialize ==
    \/ \E fail_at \in 0..MaxFilePairs : InitializeKnowledgeBase(fail_at)
    \/ Return

SpecInitialize == InitInitialize /\ [][NextInitialize]_vars

\* ------------------------------ specification of repeated queries

MaxQueries == 3

\* the texts callers ask about
Queries == {"q1", "q2"}

\* the service built with the default weights from a knowledge base of two
\* valid pairs (ids 0 and 1) on an empty ./chroma_db
QueriedService == construct(NoCollection, Concat(<<"plain", "long">>), 600, 400, "up")

\* no query has been answered yet
NoHistory == [seen |-> FALSE, queries |-> 0, request |-> NoRequest,
              response |-> NoResponse]

InitQueries ==
    /\ content = Concat(<<"plain", "long">>)
    /\ qa_pairs = QueriedService.qa_pairs
    /\ parse_status = QueriedService.parse_status
    /\ svc = QueriedService.svc
    /\ semantic_weight = 600
    /\ keyword_weight = 400
    /\ store = QueriedService.store
    /\ handle = QueriedService.handle
    /\ tfidf = QueriedService.tfidf
    /\ request = NoRequest
    /\ response = NoResponse
    /\ procs = <<>>
    /\ app = NoHistory

\* no answer of the embedding provider and the indices: the embedding call
\* raised
NoAnswers == [distances |-> <<>>, nearest |-> <<>>, similarities |-> <<>>,
              order |-> <<>>]

\* what the embedding provider and the two indices can answer to a query
\* for n results: the cosine distances of the query embedding to the items,
\* the order collection.query reports them in, the TF-IDF similarities and
\* the order argsort puts them in
QueryAnswers(st, t, embed_ok, n) ==
    IF ~embed_ok THEN {NoAnswers}
    ELSE UNION {UNION {UNION {
           {[distances |-> d, nearest |-> q, similarities |-> s, order |-> o] :
                o \in ArgsortDescending(s)} :
             s \in [1..Len(t.ids) -> {0, One}]} :
             q \in QueryOrders(st.items, d, n)} :
             d \in [st.items -> {One, 2 * One}]}

\* search on the given answers
search_on(pairs, ws, wk, st, h, t, embed_ok, answers, n) ==
    IF ~embed_ok
    THEN search(pairs, ws, wk, FALSE, TRUE, <<>>, <<>>, n)
    ELSE search(pairs, ws, wk, TRUE, st.exists /\ st.uid = h,
                chroma_search(answers.nearest, answers.distances),
                tfidf_search(t, answers.similarities, answers.order, n), n)

\* mutant of transform: the vectorizer is fitted again, on the query
transform_refits(t) == [t EXCEPT !.ids = <<>>]

\* self.vectorizer.transform([processed_query]) (tfidf_service.py line 145):
\* the fitted vectorizer and the document vectors stay as they are
transform(t) == t

\* the first query is kept to compare later ones with it
Remember(history, req, resp) ==
    IF history.seen THEN [history EXCEPT !.queries = @ + 1]
    ELSE [seen |-> TRUE, queries |-> 1, request |-> req, response |-> resp]

\* rag.search(query, n_results) for a query text
SearchQuery(query, embed_ok, n) ==
    /\ svc = "ready"
    /\ request.op = "none"
    /\ app.queries < MaxQueries
    /\ \E answers \in QueryAnswers(store, tfidf, embed_ok, n) :
         LET req == [op |-> "search", query |-> query, embed_ok |-> embed_ok,
                     n_results |-> n, max_context_length |-> 0,
                     answers |-> answers]
             resp == search_on(qa_pairs, semantic_weight, keyword_weight, store,
                               handle, tfidf, embed_ok, answers, n)
         IN  /\ request' = req
             /\ response' = resp
             /\ app' = Remember(app, req, resp)
    /\ tfidf' = transform(tfidf)
    /\ UNCHANGED <<content, qa_pairs, parse_status, svc, semantic_weight,
                   keyword_weight, store, handle, procs>>

\* rag.get_context_for_llm(query) for a query text
ContextQuery(query, embed_ok) ==
    /\ svc = "ready"
    /\ request.op = "none"
    /\ app.queries < MaxQueries
    /\ \E answers \in QueryAnswers(store, tfidf, embed_ok, ContextResults) :
         LET req == [op |-> "context", query |-> query, embed_ok |-> embed_ok,
                     n_results |-> ContextResults, max_context_length |-> 2000,
                     answers |-> answers]
             resp == get_context_for_llm(qa_pairs,
                        search_on(qa_pairs, semantic_weight, keyword_weight, store,
                                  handle, tfidf, embed_ok, answers, ContextResults),
                        2000)
         IN  /\ request' = req
             /\ response' = resp
             /\ app' = Remember(app, req, resp)
    /\ tfidf' = transform(tfidf)
    /\ UNCHANGED <<content, qa_pairs, parse_status, svc, semantic_weight,
                   keyword_weight, store, handle, procs>>

NextQueries ==
    \/ \E query \in Queries, embed_ok \in BOOLEAN, n \in 1..MaxN :
         SearchQuery(query, embed_ok, n)
    \/ \E query \in Queries, embed_ok \in BOOLEAN : ContextQuery(query, embed_ok)
    \/ Return

SpecQueries == InitQueries /\ [][NextQueries]_vars

\* ------------------------------------ specification of the web application

MaxRequests == 3

\* the knowledge base files of the application specification: one valid
\* pair, or no valid pair (every build fails in parse)
RoutesKnowledgeBases == {Concat(<<"plain">>), Concat(<<"noq">>)}

\* rag_service = None (routes.py line 32) and an empty questions table
NewApp == [rag_service |-> "None", requests |-> 0, attempts |-> 0, builds |-> 0,
           questions |-> <<>>]

\* the HybridRAGService object the variables of this module describe
CurrentInstance ==
    [svc |-> svc, qa_pairs |-> qa_pairs, parse_status |-> parse_status,
     store |-> store, handle |-> handle, tfidf |-> tfidf,
     semantic_weight |-> semantic_weight, keyword_weight |-> keyword_weight]

\* mutant of ShouldBuild: every call constructs a new service
AlwaysBuild(global) == TRUE

\* the test of get_rag_service (line 37)
ShouldBuild(global) == global = "None"

\* mutant of Published: the global is bound before the build has finished
PublishedEarly(global, attempted, made) ==
    IF attempted THEN "instance" ELSE global

\* the assignment of get_rag_service (line 41): it runs when the constructor
\* has returned, and not when it raised
Published(global, attempted, made) ==
    IF attempted /\ made.svc = "ready" THEN "instance" ELSE global

\* get_rag_service(): returned says whether it returned or raised, attempted
\* whether the constructor ran, instance is the object behind the global (or
\* the unchanged fields when nothing was bound), with ./chroma_db as the
\* constructor left it
get_rag_service(global, current, text, kb_exists, ollama) ==
    LET attempted == ShouldBuild(global) /\ kb_exists
        made == construct(current.store, text, 600, 400, ollama)
        bound == Published(global, attempted, made)
    IN  [returned |-> IF ShouldBuild(global)
                      THEN attempted /\ made.svc = "ready" ELSE TRUE,
         attempted |-> attempted,
         built |-> attempted /\ made.svc = "ready",
         rag_service |-> bound,
         instance |->
           IF attempted /\ bound = "instance"
           THEN [svc |-> made.svc, qa_pairs |-> made.qa_pairs,
                 parse_status |-> made.parse_status, store |-> made.store,
                 handle |-> made.handle, tfidf |-> made.tfidf,
                 semantic_weight |-> 600, keyword_weight |-> 400]
           ELSE IF attempted THEN [current EXCEPT !.store = made.store]
           ELSE current]

InitRoutes ==
    /\ content \in RoutesKnowledgeBases
    /\ qa_pairs = <<>>
    /\ parse_status = "new"
    /\ svc = "new"
    /\ semantic_weight = 0
    /\ keyword_weight = 0
    /\ store \in InitialStores
    /\ handle = 0
    /\ tfidf = NotFitted
    /\ request = NoRequest
    /\ response = NoResponse
    /\ procs = <<>>
    /\ app = NewApp

\* POST /ask (ask_question, lines 45-107), the whole handler.  kb_exists:
\* the knowledge base file is there; ollama: as in construct; embed_ok: the
\* embedding call of the query returns; llm_ok: the model produced an answer
\* (generate_answer_with_context returns a fixed error text otherwise, it
\* never raises); commit_ok, refresh_ok: db.commit() and db.refresh() return
Ask(kb_exists, ollama, embed_ok, llm_ok, commit_ok, refresh_ok) ==
    /\ request.op = "none"
    /\ app.requests < MaxRequests
    /\ request' = [op |-> "ask", kb_exists |-> kb_exists, ollama |-> ollama,
                   embed_ok |-> embed_ok, llm_ok |-> llm_ok,
                   commit_ok |-> commit_ok, refresh_ok |-> refresh_ok]
    /\ \E got \in {get_rag_service(app.rag_service, CurrentInstance, content,
                                    kb_exists, ollama)} :
         \E rag \in {got.instance} :
           /\ svc' = rag.svc
           /\ qa_pairs' = rag.qa_pairs
           /\ parse_status' = rag.parse_status
           /\ store' = rag.store
           /\ handle' = rag.handle
           /\ tfidf' = rag.tfidf
           /\ semantic_weight' = rag.semantic_weight
           /\ keyword_weight' = rag.keyword_weight
           /\ \E found \in (IF got.returned
                            THEN SearchOutcomesOn(rag.qa_pairs, rag.semantic_weight,
                                                  rag.keyword_weight, rag.store,
                                                  rag.handle, rag.tfidf, embed_ok,
                                                  ContextResults)
                            ELSE {Raised}) :
                LET context == get_context_for_llm(rag.qa_pairs, found, 2000)
                    answer_text == IF llm_ok THEN "answer" ELSE "error text"
                    committed == context.status = "ok" /\ commit_ok
                    http == IF committed /\ refresh_ok THEN 200 ELSE 500
                IN  /\ response' = [status |-> IF http = 200 THEN "ok" ELSE "error",
                                    http |-> http,
                                    evaluated |-> got.returned,
                                    context |-> context.context,
                                    answer |-> IF http = 200 THEN answer_text
                                               ELSE "none"]
                    /\ app' = [rag_service |-> got.rag_service,
                               requests |-> app.requests + 1,
                               attempts |-> app.attempts
                                            + (IF got.attempted THEN 1 ELSE 0),
                               builds |-> app.builds
                                          + (IF got.built THEN 1 ELSE 0),
                               questions |-> IF committed
                                             THEN Append(app.questions, answer_text)
                                             ELSE app.questions]
    /\ UNCHANGED <<content, procs>>

\* the client has the response
Respond ==
    /\ request.op # "none"
    /\ request' = NoRequest
    /\ response' = NoResponse
    /\ UNCHANGED <<content, qa_pairs, parse_status, svc, semantic_weight,
                   keyword_weight, store, handle, tfidf, procs, app>>

NextRoutes ==
    \/ \E kb_exists \in BOOLEAN, ollama \in {"down", "flaky", "up"},
          embed_ok \in BOOLEAN, llm_ok \in BOOLEAN, commit_ok \in BOOLEAN,
          refresh_ok \in BOOLEAN :
         Ask(kb_exists, ollama, embed_ok, llm_ok, commit_ok, refresh_ok)
    \/ Respond

SpecRoutes == InitRoutes /\ [][NextRoutes]_vars

\* ------------------------------------------------------------ claims: parser

Ids(pairs) == [k \in 1..Len(pairs) |-> pairs[k].id]

C1_WitnessTwo == parse_status = "ok" /\ Ids(qa_pairs) = <<0, 1>>

\* ------------------------------------------------------------ claims: merge

Answered == response.status = "ok"

\* C2: the list search returns after merging the semantic and the keyword
\* result lists never holds two candidates with the same entry id, whatever
\* the two lists are (an id in both lists, an id repeated inside a list).
C2_NoDuplicateIds ==
    Answered =>
        \A i, j \in 1..Len(response.results) :
            response.results[i].id = response.results[j].id => i = j

\* an id repeated inside the semantic list and present in the keyword list,
\* next to another id, all returned
C2_Witness ==
    /\ Answered
    /\ Len(response.results) = 2
    /\ Len(response.semantic_results) = 2
    /\ response.semantic_results[1].qa_id = response.semantic_results[2].qa_id
    /\ \E k \in 1..Len(response.keyword_results) :
         response.keyword_results[k].qa_id = response.semantic_results[1].qa_id

\* C3: every candidate search returns has
\* combined_score = semantic_score * semantic_weight + keyword_score * keyword_weight,
\* be it found semantically only, lexically only, or by both.
C3_CombinedIsWeightedSum ==
    (svc = "ready" /\ Answered) =>
        \A i \in 1..Len(response.results) :
            response.results[i].combined_score =
                response.results[i].semantic_score * semantic_weight
                + response.results[i].keyword_score * keyword_weight

\* a returned candidate found by both searches with two positive scores,
\* ranked above one found semantically only
C3_Witness ==
    /\ svc = "ready" /\ Answered
    /\ Len(response.results) = 2
    /\ response.results[1].match_type = "both"
    /\ response.results[1].semantic_score > 0
    /\ response.results[1].keyword_score > 0
    /\ response.results[2].match_type = "semantic"

\* C4 as stated: for every service the constructor accepts and every query,
\* semantic_score, keyword_score and combined_score of every returned
\* candidate lie in [0,1].
C4_ScoresInUnitInterval ==
    (svc = "ready" /\ Answered) =>
        \A i \in 1..Len(response.results) :
            /\ response.results[i].semantic_score \in 0..One
            /\ response.results[i].keyword_score \in 0..One
            /\ response.results[i].combined_score \in 0..(One * One)

\* the position at which an entry enters the merge: semantic results in
\* the order of their list, then the keyword results not found semantically
MergePosition(id) ==
    LET sem == {k \in 1..Len(response.semantic_results) :
                  response.semantic_results[k].qa_id = id}
        key == {k \in 1..Len(response.keyword_results) :
                  response.keyword_results[k].qa_id = id}
    IN  IF sem # {} THEN Min(sem)
        ELSE Len(response.semantic_results) + Min(key)

SortedDescending ==
    \A i, j \in 1..Len(response.results) :
        i < j => response.results[i].combined_score >= response.results[j].combined_score

\* C5 as stated: the returned list is ordered by combined_score descending
\* and candidates with equal combined_score appear in ascending id order.
C5_TiesByAscendingId ==
    (svc = "ready" /\ Answered) =>
        /\ SortedDescending
        /\ \A i, j \in 1..Len(response.results) :
             (i < j /\ response.results[i].combined_score
                        = response.results[j].combined_score)
                => response.results[i].id < response.results[j].id

\* C5 amended: the returned list is ordered by combined_score descending and
\* candidates with equal combined_score keep the order in which they entered
\* the merge (semantic results in the order the vector index returned them,
\* then keyword-only results in the order of the keyword list).
C5_TiesByMergeOrder ==
    (svc = "ready" /\ Answered) =>
        /\ SortedDescending
        /\ \A i, j \in 1..Len(response.results) :
             (i < j /\ response.results[i].combined_score
                        = response.results[j].combined_score)
                => MergePosition(response.results[i].id)
                     < MergePosition(response.results[j].id)

\* two returned candidates with different scores, and behind them nothing
C5_Witness ==
    /\ svc = "ready" /\ Answered
    /\ Len(response.results) = 2
    /\ response.results[1].combined_score > response.results[2].combined_score
    /\ response.results[1].id > response.results[2].id

\* two returned candidates with equal scores, the larger id first
C5_WitnessTie ==
    /\ svc = "ready" /\ Answered
    /\ Len(response.results) = 2
    /\ response.results[1].combined_score = response.results[2].combined_score
    /\ response.results[1].id > response.results[2].id

\* ---------------------------------------------------- claims: vector search

\* C6 as stated: the distance-to-similarity conversion of
\* ChromaDBService.search is monotonic non-increasing over all non-negative
\* distances: d1 <= d2 implies similarity(d1) >= similarity(d2).
C6_ConversionMonotonic ==
    (request.op = "chroma_search" /\ Answered) =>
        \A i, j \in 1..Len(response.semantic_results) :
            request.dist[response.semantic_results[i].qa_id]
                <= request.dist[response.semantic_results[j].qa_id]
            => response.semantic_results[i].similarity
                 >= response.semantic_results[j].similarity

\* C7: for every distance the vector store returns (0, values in (0,2],
\* values above 2, very large values) the similarity ChromaDBService.search
\* computes lies in [0,1]; it is never negative.
C7_SimilarityInUnitInterval ==
    (request.op = "chroma_search" /\ Answered) =>
        \A i \in 1..Len(response.semantic_results) :
            response.semantic_results[i].similarity \in 0..One

\* a search that returned a document at a distance in (0,2] and one at a
\* very large distance
C7_Witness ==
    /\ request.op = "chroma_search" /\ Answered
    /\ Len(response.semantic_results) = 2
    /\ request.dist[response.semantic_results[1].qa_id] \in 1..(2 * One)
    /\ request.dist[response.semantic_results[2].qa_id] >= 100 * One
    /\ response.semantic_results[2].similarity \in 0..One

\* --------------------------------------------------------- claims: context

\* C8 as stated: get_context_for_llm returns the no-information sentinel
\* both when its search yields no candidates and when max_context_length
\* is 0 (even if the search yields candidates).
C8_SentinelWhenEmptyOrZeroLength ==
    (request.op = "context" /\ Answered
       /\ (response.results = <<>> \/ request.max_context_length = 0))
    => response.context.kind = "sentinel"

\* ------------------------------------------------- claims: embedding failure

\* C9 as stated: when the embedding call for the query fails, search does
\* not fail: it returns the ranking built from the keyword results alone.
C9_DegradesToKeywordRanking ==
    (request.op \in {"search", "context"} /\ ~request.embed_ok) => Answered

\* C9 amended: when the embedding call for the query fails, search fails
\* with that exception: it returns no ranking and the keyword search is
\* not run.
C9_EmbeddingFailureRaises ==
    (request.op \in {"search", "context"} /\ ~request.embed_ok) =>
        /\ response.status = "error"
        /\ response.results = <<>>
        /\ response.keyword_results = <<>>

\* a search whose embedding call failed, on a service with a fitted index
C9_Witness ==
    /\ request.op = "search"
    /\ ~request.embed_ok
    /\ tfidf.is_fitted
    /\ response.status = "error"

\* ---------------------------------------------------------- claims: rebuild

AllProcs ==
    {procs.server} \cup {procs.rebuilders[i] : i \in 1..NumRebuilders}
                   \cup {procs.readers[j] : j \in 1..NumReaders}

SemanticIds == {response.semantic_results[k].qa_id :
                  k \in 1..Len(response.semantic_results)}

\* the merged candidates that the sort of line 217 places before candidate m:
\* a higher combined_score, or the same score and an earlier place in the merge
RankedBefore(m) ==
    {c \in 1..Len(response.merged) :
        \/ response.merged[c].combined_score > response.merged[m].combined_score
        \/ /\ response.merged[c].combined_score = response.merged[m].combined_score
           /\ c < m}

\* C11 as stated: an entry in the keyword results (score > 0) that is not in
\* the semantic results is in the list search returns, with match_type
\* "keyword", whatever the scores of the semantic results.
C11_KeywordOnlyAlwaysReturned ==
    (svc = "ready" /\ Answered) =>
        \A k \in 1..Len(response.keyword_results) :
            response.keyword_results[k].qa_id \notin SemanticIds =>
                \E i \in 1..Len(response.results) :
                    /\ response.results[i].id = response.keyword_results[k].qa_id
                    /\ response.results[i].match_type = "keyword"

\* C11 amended: such an entry always becomes a merge candidate with
\* match_type "keyword" and combined_score = keyword_score * keyword_weight,
\* and it is in the returned list exactly when fewer than n_results
\* candidates are ranked before it.
C11_KeywordOnlyReturnedIfRanked ==
    (svc = "ready" /\ Answered) =>
        \A k \in 1..Len(response.keyword_results) :
            LET kr == response.keyword_results[k]
            IN  kr.qa_id \notin SemanticIds =>
                  \E m \in 1..Len(response.merged) :
                      /\ response.merged[m].id = kr.qa_id
                      /\ response.merged[m].match_type = "keyword"
                      /\ response.merged[m].combined_score = kr.score * keyword_weight
                      /\ (\E i \in 1..Len(response.results) :
                              response.results[i] = response.merged[m])
                           <=> Cardinality(RankedBefore(m)) < request.n_results

\* a keyword-only entry returned ahead of the semantic result it outranks
C11_Witness ==
    /\ svc = "ready" /\ Answered
    /\ Len(response.semantic_results) = 1
    /\ Len(response.results) = 1
    /\ response.results[1].match_type = "keyword"
    /\ response.results[1].keyword_score > 0
    /\ response.results[1].id \notin SemanticIds

\* ------------------------------------------------- claims: no ranking signal

\* neither index gave a result for the query that was answered
NoSignal ==
    /\ svc = "ready"
    /\ request.op \in {"search", "context"}
    /\ Answered
    /\ response.semantic_results = <<>>
    /\ response.keyword_results = <<>>

\* C12 as stated: when neither index yields a ranking signal the query is
\* reported to the caller as a retrieval failure, never as an empty result
\* list or the ordinary no-information context.
C12_NoSignalIsFailure == ~NoSignal

\* C12 amended: when both indices return nothing, search returns the empty
\* list and get_context_for_llm returns the fixed no-information string; a
\* failure reaches the caller only when the embedding call or the vector
\* query raises.
C12_NoSignalIsEmptyResult ==
    /\ NoSignal =>
        /\ response.results = <<>>
        /\ response.context.kind =
             (IF request.op = "context" THEN "sentinel" ELSE "none")
    /\ (svc = "ready" /\ request.op \in {"search", "context"}) =>
        (response.status = "error"
           <=> (~request.embed_ok \/ ~(store.exists /\ store.uid = handle)))

\* the emptied vector index and no lexical hit: the no-information string
C12_Witness ==
    /\ NoSignal
    /\ request.op = "context"
    /\ store.items = {}
    /\ tfidf.is_fitted
    /\ response.context.kind = "sentinel"

\* --------------------------------------------------- claims: malformed input

\* a text of whitespace only (the empty text included)
Blank(text) == \A i \in 1..Len(text) : text[i] = "_"

\* some matched pair has a question and an answer that are not blank
HasValidPair ==
    \E m \in 1..Len(FindAll(content, 1)) :
        /\ ~Blank(FindAll(content, 1)[m].question)
        /\ ~Blank(FindAll(content, 1)[m].answer)

\* C13: for every input with zero valid question/answer pairs (no markers,
\* or every matched pair has an empty question or an empty answer after
\* cleaning) parse raises and returns no entry list.
C13_NoValidPairRaises ==
    (parse_status # "new" /\ ~HasValidPair) =>
        (parse_status = "error" /\ qa_pairs = <<>>)

\* a file with markers whose only matched pair has a blank question
C13_Witness ==
    /\ parse_status = "error"
    /\ Len(FindAll(content, 1)) = 1
    /\ Blank(FindAll(content, 1)[1].question)
    /\ ~Blank(FindAll(content, 1)[1].answer)
    /\ qa_pairs = <<>>

\* ------------------------------------------------------ claims: index id sets

\* the ids the lexical index can return: qa_pairs[idx]['id'] of its documents
TfidfIdSet(t) == {t.ids[k] : k \in 1..Len(t.ids)}

\* C14: when the initialization succeeds, the ids stored in the vector
\* index, the ids the lexical index can return and the ids of the parser's
\* entries are the same set; and every id either index returns to a search
\* is resolved by get_by_id.
C14_IndexIdSetsEqual ==
    [][/\ (svc = "new" /\ svc' = "ready") =>
             /\ store'.exists /\ store'.uid = handle'
             /\ store'.items = IdSet(qa_pairs')
             /\ TfidfIdSet(tfidf') = IdSet(qa_pairs')
       /\ (svc' = "ready" /\ response'.status = "ok") =>
             /\ \A k \in 1..Len(response'.semantic_results) :
                    HasId(qa_pairs', response'.semantic_results[k].qa_id)
             /\ \A k \in 1..Len(response'.keyword_results) :
                    HasId(qa_pairs', response'.keyword_results[k].qa_id)]_vars

\* built over the collection of an earlier run that held other ids: entry 1
\* alone is indexed, and a search returned it from both indices
C14_Witness ==
    /\ svc = "ready"
    /\ IdSet(qa_pairs) = {1}
    /\ store.items = {1}
    /\ TfidfIdSet(tfidf) = {1}
    /\ Answered
    /\ Len(response.semantic_results) = 1
    /\ Len(response.keyword_results) = 1

\* ------------------------------------------------------ claims: context length

\* C15 as stated: the text get_context_for_llm assembles from the Q/A blocks
\* joined by the separator never exceeds max_context_length characters.
C15_ContextWithinLimit ==
    (svc = "ready" /\ Answered /\ response.context.kind = "context") =>
        JoinedLen(qa_pairs, response.context.parts) <= request.max_context_length

\* ------------------------------------------------------ claims: lexical order

KeywordSortedDescending ==
    \A i, j \in 1..Len(response.keyword_results) :
        i < j => response.keyword_results[i].score >= response.keyword_results[j].score

\* C16 as stated: TFIDFService.search returns its results in descending
\* similarity order, and results of equal similarity in ascending id order.
C16_TfidfTiesByAscendingId ==
    (svc = "ready" /\ Answered) =>
        /\ KeywordSortedDescending
        /\ \A i, j \in 1..Len(response.keyword_results) :
             (i < j /\ response.keyword_results[i].score
                        = response.keyword_results[j].score)
                => response.keyword_results[i].qa_id < response.keyword_results[j].qa_id

\* C16 amended: TFIDFService.search returns at most n_results results, each
\* with a positive similarity and a different entry, in descending
\* similarity order; the order of results of equal similarity is the one
\* argsort left and need not be ascending in the id.
C16_TfidfDescending ==
    (svc = "ready" /\ Answered) =>
        /\ KeywordSortedDescending
        /\ Len(response.keyword_results) <= request.n_results
        /\ \A i \in 1..Len(response.keyword_results) :
             response.keyword_results[i].score > 0
        /\ \A i, j \in 1..Len(response.keyword_results) :
             response.keyword_results[i].qa_id = response.keyword_results[j].qa_id
                => i = j

\* two lexical results of equal similarity, the larger id first
C16_Witness ==
    /\ svc = "ready" /\ Answered
    /\ Len(response.keyword_results) = 2
    /\ response.keyword_results[1].score = response.keyword_results[2].score
    /\ response.keyword_results[1].qa_id > response.keyword_results[2].qa_id

\* ------------------------------------------------ claims: vector search order

\* C17 as stated: ChromaDBService.search(query_embedding, k) returns at most
\* k results ordered by converted similarity descending, equal similarities
\* in ascending entry-id order.
C17_ChromaSortedTiesById ==
    (request.op = "chroma_search" /\ Answered) =>
        /\ Len(response.semantic_results) <= request.n_results
        /\ \A i, j \in 1..Len(response.semantic_results) :
             i < j =>
               \/ response.semantic_results[i].similarity
                    > response.semantic_results[j].similarity
               \/ /\ response.semantic_results[i].similarity
                       = response.semantic_results[j].similarity
                  /\ response.semantic_results[i].qa_id
                       < response.semantic_results[j].qa_id

\* ------------------------------------------------ claims: lexical preprocessing

\* the whole text is one e-mail address, or one http URL
IsAddress(text) ==
    /\ text # <<>>
    /\ \/ EmailEnd(Lower(text), 1) = Len(text)
       \/ UrlEnd(Lower(text), 1) = Len(text)

\* C18 as stated: preprocess_text rewrites an e-mail address or an http(s)
\* URL into a single token of alphanumeric characters; the rewritten
\* address holds no separator and is not split into several terms.
C18_AddressBecomesOneToken ==
    (request.op = "preprocess_text" /\ IsAddress(request.text)) =>
        /\ Len(SplitWords(response.text, <<>>)) = 1
        /\ \A i \in 1..Len(response.text) : response.text[i] \in Letters

\* ------------------------------------------------------- claims: lexical fit

\* some document of the corpus holds a word of two or more characters
\* after preprocessing
HasToken(documents) ==
    \E k \in 1..Len(documents) :
        \E w \in 1..Len(SplitWords(preprocess_text(documents[k]), <<>>)) :
            LetterCount(SplitWords(preprocess_text(documents[k]), <<>>)[w]) >= 2

\* C19 as stated: after fit on any non-empty corpus, also one for which the
\* primary thresholds yield no vocabulary, the index is usable: fit returns,
\* is_fitted is true and search does not take the not-fitted path.
C19_FitAlwaysUsable ==
    (request.op = "fit" /\ request.documents # <<>>) =>
        (response.status = "ok" /\ tfidf.is_fitted)

\* C19 amended: after fit on a corpus in which some document holds a token
\* (a word of two or more characters after preprocessing) the index is
\* usable, through the fallback when the primary thresholds yield no
\* vocabulary; on a corpus without any token the fallback raises as well
\* and fit fails.
C19_FitUsableIfAnyToken ==
    request.op = "fit" =>
        /\ HasToken(request.documents) =>
              (response.status = "ok" /\ tfidf.is_fitted)
        /\ ~HasToken(request.documents) => response.status = "error"
        /\ (response.status = "ok" /\ ~response.fallback) => response.vocabulary # {}

\* three documents whose terms are all pruned by min_df=2: the fallback
\* fitted the index
C19_Witness ==
    /\ request.op = "fit"
    /\ Len(request.documents) = 3
    /\ response.status = "ok"
    /\ response.fallback
    /\ tfidf.is_fitted

\* ------------------------------------------------- claims: identical query

IdenticalQuery == request.op = "chroma_search_identical" /\ Answered

\* the stored entries at distance 0 from the query
AtDistanceZero == {j \in store.items : request.dist[j] = 0}

\* C20 as stated: a query text identical to a stored entry's composite text
\* yields distance 0 to that entry, converted similarity 1, and the entry is
\* ranked first in the semantic-only results.
C20_IdenticalEntryRankedFirst ==
    IdenticalQuery =>
        /\ request.dist[request.entry] = 0
        /\ response.semantic_results # <<>>
        /\ response.semantic_results[1].qa_id = request.entry
        /\ response.semantic_results[1].similarity = One

\* C20 amended: the entry is at distance 0 and its converted similarity is
\* 1, the highest there is; the first result is an entry at distance 0 with
\* similarity 1, and only entries at distance 0 come before the entry.  The
\* entry itself is returned when at most n_results entries are at distance
\* 0, and is first when it is the only one.
C20_IdenticalEntryAtTop ==
    IdenticalQuery =>
        /\ request.dist[request.entry] = 0
        /\ DistanceToSimilarity(request.dist[request.entry]) = One
        /\ response.semantic_results # <<>>
        /\ response.semantic_results[1].similarity = One
        /\ response.semantic_results[1].qa_id \in AtDistanceZero
        /\ \A i, j \in 1..Len(response.semantic_results) :
             (i < j /\ response.semantic_results[j].qa_id = request.entry)
                => /\ response.semantic_results[i].qa_id \in AtDistanceZero
                   /\ response.semantic_results[j].similarity = One
        /\ Cardinality(AtDistanceZero) <= request.n_results =>
             \E i \in 1..Len(response.semantic_results) :
                 response.semantic_results[i].qa_id = request.entry
        /\ AtDistanceZero = {request.entry} =>
             response.semantic_results[1].qa_id = request.entry

\* the entry returned first, ahead of an entry in another direction
C20_Witness ==
    /\ IdenticalQuery
    /\ Len(response.semantic_results) = 2
    /\ response.semantic_results[1].qa_id = request.entry
    /\ response.semantic_results[1].similarity = One
    /\ response.semantic_results[2].similarity < One

\* ------------------------------------------------------ claims: weight check

\* C21: every constructed service has semantic_weight + keyword_weight
\* within 0.01 of 1; a construction with weights outside that tolerance
\* fails before the knowledge base is parsed, before the vector collection
\* is opened or reset and before any index is built.
C21_WeightsCheckedBeforeBuild ==
    [][svc = "new" /\ svc' # "new" =>
         /\ svc' = "ready" =>
               semantic_weight' + keyword_weight' \in (One - Tolerance + 1)..(One + Tolerance - 1)
         /\ semantic_weight' + keyword_weight' \notin (One - Tolerance + 1)..(One + Tolerance - 1) =>
               /\ svc' = "failed"
               /\ parse_status' = "new" /\ qa_pairs' = <<>>
               /\ store' = store /\ handle' = 0
               /\ tfidf' = NotFitted]_vars

\* a construction with the weights 0.5/0.4 failed and left the collection
\* of an earlier run as it was
C21_Witness ==
    /\ svc = "failed"
    /\ semantic_weight = 500 /\ keyword_weight = 400
    /\ parse_status = "new"
    /\ store.exists /\ store.items = {0, 1}
    /\ tfidf = NotFitted

\* a service built with weights inside the tolerance that do not sum to 1
C21_WitnessBuilt ==
    /\ svc = "ready"
    /\ semantic_weight = 605 /\ keyword_weight = 400


\* ------------------------------------------------- claims: web application

\* C22: a request handler reaches a HybridRAGService only when its whole build
\* (parse, embeddings, vector storage, TF-IDF fit) has succeeded, so no query
\* is evaluated on an unbuilt index; a build that fails binds no instance.
C22_NoQueryBeforeBuild ==
    /\ app.rag_service = "instance" =>
          /\ svc = "ready" /\ parse_status = "ok"
          /\ store.exists /\ store.uid = handle
          /\ store.items = IdSet(qa_pairs)
          /\ tfidf.is_fitted /\ TfidfIdSet(tfidf) = IdSet(qa_pairs)
    /\ (request.op = "ask" /\ response.evaluated) =>
          svc = "ready" /\ app.rag_service = "instance"
    /\ svc # "ready" => app.rag_service = "None"

\* a build failed in the embedding batch after the collection was created:
\* no instance is bound and the request was answered without a query
C22_Witness ==
    /\ request.op = "ask" /\ request.kb_exists /\ request.ollama = "flaky"
    /\ app.attempts = 1 /\ app.rag_service = "None"
    /\ store.exists /\ store.items = {}
    /\ ~response.evaluated /\ response.http = 500

\* the first request built the service and its query was evaluated
C22_WitnessBuilt ==
    /\ request.op = "ask" /\ app.requests = 1 /\ app.builds = 1
    /\ app.rag_service = "instance" /\ response.evaluated
    /\ response.context.kind = "context"


\* ------------------------------------------------------ claims: match types

KeywordIds == {response.keyword_results[k].qa_id :
                 k \in 1..Len(response.keyword_results)}

\* C23: in the merged candidates of a search, match_type is "both" exactly
\* for the ids in both result lists, "semantic" (with keyword_score 0) exactly
\* for the ids in the semantic list alone, "keyword" (with semantic_score 0)
\* exactly for the ids in the keyword list alone; a "both" candidate keeps the
\* similarity of its semantic result; the returned list is made of merged
\* candidates.
C23_MatchTypeTellsTheLists ==
    (svc = "ready" /\ Answered) =>
        /\ {response.merged[m].id : m \in 1..Len(response.merged)}
             = SemanticIds \cup KeywordIds
        /\ \A m \in 1..Len(response.merged) :
             LET c == response.merged[m]
             IN  /\ c.match_type = "both" <=>
                       (c.id \in SemanticIds /\ c.id \in KeywordIds)
                 /\ c.match_type = "semantic" <=>
                       (c.id \in SemanticIds /\ c.id \notin KeywordIds)
                 /\ c.match_type = "keyword" <=>
                       (c.id \notin SemanticIds /\ c.id \in KeywordIds)
                 /\ c.match_type = "semantic" => c.keyword_score = 0
                 /\ c.match_type = "keyword" => c.semantic_score = 0
                 /\ c.match_type = "both" =>
                       \E k \in 1..Len(response.semantic_results) :
                          /\ response.semantic_results[k].qa_id = c.id
                          /\ response.semantic_results[k].similarity = c.semantic_score
        /\ \A i \in 1..Len(response.results) :
             \E m \in 1..Len(response.merged) : response.results[i] = response.merged[m]

\* a search merged one entry found by both indices (its similarity kept) and
\* one found by the semantic index alone
C23_Witness ==
    /\ svc = "ready" /\ Answered /\ request.op = "search"
    /\ Len(response.merged) = 2
    /\ \E m \in 1..2 : /\ response.merged[m].match_type = "both"
                       /\ response.merged[m].semantic_score > 0
                       /\ response.merged[m].keyword_score > 0
    /\ \E m \in 1..2 : response.merged[m].match_type = "semantic"

\* a search merged an entry found by the keyword index alone
C23_WitnessKeyword ==
    /\ svc = "ready" /\ Answered /\ request.op = "search"
    /\ \E m \in 1..Len(response.merged) :
         /\ response.merged[m].match_type = "keyword"
         /\ response.merged[m].keyword_score > 0
    /\ SemanticIds # {}

\* ---------------------------------------------------- claims: truncation

\* C24: search(query, n) returns min(n, number of merged candidates)
\* candidates, all of them merged candidates, and no merged candidate that is
\* left out has a combined_score strictly greater than a returned one.
C24_ReturnsTheBestN ==
    (svc = "ready" /\ Answered) =>
        /\ Len(response.results) = Min2(request.n_results, Len(response.merged))
        /\ \A i \in 1..Len(response.results) :
             \E m \in 1..Len(response.merged) : response.results[i] = response.merged[m]
        /\ \A m \in 1..Len(response.merged) :
             (\A i \in 1..Len(response.results) :
                 response.results[i].id # response.merged[m].id)
             => \A i \in 1..Len(response.results) :
                  response.merged[m].combined_score <= response.results[i].combined_score

\* three candidates were merged, the first of the merge has the lowest
\* score, and the two others were returned for n = 2
C24_Witness ==
    /\ svc = "ready" /\ Answered /\ request.op = "merge"
    /\ request.n_results = 2
    /\ Len(response.merged) = 3 /\ Len(response.results) = 2
    /\ \A i \in 1..2 : /\ response.results[i].id # response.merged[1].id
                       /\ response.results[i].combined_score
                            > response.merged[1].combined_score

\* ------------------------------------------- claims: lexical search results

\* C25: TFIDFService.search(query, k) returns at most k results, every
\* returned score is the similarity of its entry and is strictly greater
\* than 0, and an entry whose similarity to the query is 0 is not returned,
\* also when fewer than k entries have a positive similarity.
C25_OnlyPositiveScores ==
    request.op = "tfidf_search" =>
        /\ Len(response.keyword_results) <= request.n_results
        /\ \A i \in 1..Len(response.keyword_results) :
             /\ response.keyword_results[i].score > 0
             /\ \E idx \in 1..Len(tfidf.ids) :
                  /\ tfidf.ids[idx] = response.keyword_results[i].qa_id
                  /\ request.similarities[idx] = response.keyword_results[i].score
        /\ \A idx \in 1..Len(tfidf.ids) :
             request.similarities[idx] = 0 =>
                \A i \in 1..Len(response.keyword_results) :
                   response.keyword_results[i].qa_id # tfidf.ids[idx]

\* two results were asked for, one document has a positive similarity and
\* another has similarity 0: one result is returned
C25_Witness ==
    /\ request.op = "tfidf_search" /\ request.n_results = 2
    /\ tfidf.is_fitted /\ Len(tfidf.ids) >= 2
    /\ \E idx \in 1..Len(tfidf.ids) : request.similarities[idx] = 0
    /\ Len(response.keyword_results) = 1

\* ------------------------------------------------ claims: cleaned entries

NotSpace(token) == token # "_"

\* no leading or trailing whitespace and no two whitespace characters in a row
Cleaned(text) ==
    /\ text # <<>> => (text[1] # "_" /\ text[Len(text)] # "_")
    /\ \A i \in 1..(Len(text) - 1) : ~(text[i] = "_" /\ text[i + 1] = "_")

\* C26: parse discards exactly the matched pairs whose question or answer is
\* empty after cleaning (is blank) and keeps the others in source order;
\* every kept question and answer has no leading or trailing whitespace and
\* no run of two or more whitespace characters, holds the words of the
\* matched text, and is left unchanged by cleaning it again.
C26_KeepsNonEmptyCleanedPairs ==
    parse_status = "ok" =>
        LET matches == FindAll(content, 1)
            kept == {m \in 1..Len(matches) :
                        ~Blank(matches[m].question) /\ ~Blank(matches[m].answer)}
        IN  /\ Len(qa_pairs) = Cardinality(kept)
            /\ \A k \in 1..Len(qa_pairs) :
                 LET m == qa_pairs[k].id + 1
                 IN  /\ m \in kept
                     /\ Cardinality({j \in kept : j < m}) = k - 1
                     /\ Cleaned(qa_pairs[k].question)
                     /\ Cleaned(qa_pairs[k].answer)
                     /\ SelectSeq(qa_pairs[k].question, NotSpace)
                          = SelectSeq(matches[m].question, NotSpace)
                     /\ SelectSeq(qa_pairs[k].answer, NotSpace)
                          = SelectSeq(matches[m].answer, NotSpace)
                     /\ clean_text(qa_pairs[k].question) = qa_pairs[k].question
                     /\ clean_text(qa_pairs[k].answer) = qa_pairs[k].answer

\* two pairs were matched, the first has a blank answer and is discarded,
\* the second is kept
C26_Witness ==
    /\ parse_status = "ok"
    /\ Len(FindAll(content, 1)) = 2
    /\ Blank(FindAll(content, 1)[1].answer)
    /\ Len(qa_pairs) = 1 /\ qa_pairs[1].id = 1

\* a kept question whose matched text had a run of whitespace inside
C26_WitnessCollapsed ==
    /\ parse_status = "ok"
    /\ Len(qa_pairs) = 1
    /\ qa_pairs[1].question = <<"x", "_", "x">>
    /\ FindAll(content, 1)[1].question = <<"x", "_", "_", "x">>

\* ----------------------------------------- claims: build of the vector index

\* C27: when the entries were parsed, initialization calls the embedding
\* function once per entry, in the order of the entries, on the entry's
\* composite text, and the i-th embedding is added under the id of the i-th
\* entry; when one embedding call raises, no later call is made, nothing is
\* added and the items of the collection are the ones it held before.
C27_OneEmbeddingPerEntry ==
    (request.op = "initialize" /\ parse_status = "ok") =>
        LET texts == [k \in 1..Len(qa_pairs) |-> to_text(qa_pairs[k])]
        IN  /\ request.fail_at = 0 =>
                  /\ response.calls = texts
                  /\ Len(response.added) = Len(qa_pairs)
                  /\ \A i \in 1..Len(qa_pairs) :
                       /\ response.added[i].id = qa_pairs[i].id
                       /\ response.added[i].embedding = [call |-> i, prompt |-> texts[i]]
                  /\ store.items = IdSet(qa_pairs)
            /\ request.fail_at # 0 =>
                  /\ response.calls = SubSeq(texts, 1, request.fail_at)
                  /\ response.added = <<>>
                  /\ store.items = request.store_before.items
                  /\ svc = "failed"

\* two entries with different composite texts and the ids 0 and 2 (the pair
\* between them was discarded) were embedded and added
C27_Witness ==
    /\ request.op = "initialize" /\ request.fail_at = 0
    /\ Len(response.added) = 2
    /\ response.added[1].embedding.prompt # response.added[2].embedding.prompt
    /\ response.added[1].id = 0 /\ response.added[2].id = 2
    /\ response.added[2].embedding.call = 2

\* the second of three embedding calls raised over the collection of an
\* earlier run, which keeps its items
C27_WitnessFailed ==
    /\ request.op = "initialize" /\ request.fail_at = 2
    /\ Len(qa_pairs) = 3 /\ Len(response.calls) = 2
    /\ store.items = {0, 1} /\ svc = "failed"

\* ------------------------------------------------ claims: pure queries

\* a step that answers a search or a get_context_for_llm call
QueryStep == request.op = "none" /\ request'.op \in {"search", "context"}

\* a query step leaves the entries, the collection, the TF-IDF index and the
\* weights as they were
QueryFrame ==
    UNCHANGED <<content, qa_pairs, parse_status, svc, semantic_weight,
                keyword_weight, store, handle, tfidf>>

C28_WitnessDiffers ==
    /\ app.queries = 2
    /\ app.request.op = "search" /\ app.request.query = "q1"
    /\ app.request.n_results = 1 /\ Len(app.response.results) = 1
    /\ request.op = "search" /\ request.query = "q1" /\ request.n_results = 1
    /\ response.status = "error"

\* a step that handles a request of the web application
AskStep == request.op = "none" /\ request'.op = "ask"

\* C29: get_rag_service builds the service at most once successfully; once
\* the global is bound every later call returns the bound instance and the
\* constructor does not run (nothing is parsed, no index is touched); a
\* call that finds the global unset runs the constructor (when the knowledge
\* base file is there), and when the constructor raises the global stays
\* unset.
C29_BuiltAtMostOnce ==
    [][AskStep =>
         /\ app'.builds <= 1
         /\ app.rag_service = "instance" =>
               /\ app'.rag_service = "instance"
               /\ app'.attempts = app.attempts /\ app'.builds = app.builds
               /\ response'.evaluated
               /\ UNCHANGED <<qa_pairs, parse_status, svc, semantic_weight,
                              keyword_weight, store, handle, tfidf>>
         /\ (app.rag_service = "None" /\ request'.kb_exists) =>
               /\ app'.attempts = app.attempts + 1
               /\ app'.builds = app.builds =>
                     (app'.rag_service = "None" /\ ~response'.evaluated)
               /\ app'.builds = app.builds + 1 =>
                     (app'.rag_service = "instance" /\ svc' = "ready")
         /\ (app.rag_service = "None" /\ ~request'.kb_exists) =>
               /\ app'.rag_service = "None" /\ ~response'.evaluated
               /\ app'.attempts = app.attempts]_vars

\* the first request failed in the build, the second built the service, the
\* third was answered by the same instance
C29_Witness ==
    /\ request.op = "ask"
    /\ app.requests = 3 /\ app.attempts = 2 /\ app.builds = 1
    /\ app.rag_service = "instance" /\ response.evaluated
    /\ response.http = 200

\* C30 as stated: an /ask request adds a row to the history exactly when it
\* returns a successful answer: a request that ends with HTTP 500 leaves the
\* questions table as it was, a request that ends with HTTP 200 adds one row,
\* holding the answer it returned.
C30_RowIffAnswered ==
    [][AskStep =>
         /\ response'.http = 500 => app'.questions = app.questions
         /\ response'.http = 200 =>
               app'.questions = Append(app.questions, response'.answer)]_vars

\* the divergence: the request ended with HTTP 500 because db.refresh raised
\* after db.commit, and its row is in the table
C30_RowKeptAfterError ==
    /\ request.op = "ask" /\ response.http = 500
    /\ request.commit_ok /\ ~request.refresh_ok
    /\ app.requests = 1 /\ Len(app.questions) = 1

====
